---- MODULE Spec2Model ----
(***************************************************************************)
(* Signal-to-position pipeline of the Solana memecoin bot: the trading     *)
(* worker (_process_trading / _execute_buy_order), the position monitor    *)
(* (_monitor_positions / _check_exit_conditions / _execute_sell_order),    *)
(* the venue results they consume and the control actions of the web API.  *)
(*                                                                         *)
(* Units.  Prices are integers in hundredths (100 = 1.0).  SOL amounts are *)
(* integers in 1/32000 SOL (48000 = 1.5 SOL), token amounts in the unit    *)
(* that makes tokens = amount_sol * 100 / price; with the prices used      *)
(* below every product with 0.15, 0.85 and 0.5 is exact.  Percentages are  *)
(* integers out of 100.  Time is in hours.                                 *)
(*                                                                         *)
(* Steps.  Every coroutine runs atomically from one await to the next      *)
(* (asyncio), so each action below is one such stretch of code.  A sell    *)
(* has two: the venue settles the trade inside sell_token (which goes on   *)
(* awaiting the confirmation), then _execute_sell_order resumes with the   *)
(* TradeResult.                                                            *)
(***************************************************************************)
EXTENDS Integers, Sequences, FiniteSets, TLC

----------------------------------------------------------------------------
(* Bounds of the model *)
MaxQueue == 1   \* BUY analyses waiting in trading_queue
MaxPids  == 2   \* Position objects created in one run
MaxHours == 24  \* the clock stops here
MaxSignals == 2 \* discoveries the monitors make in one run
MaxWall == 31   \* time.time() between two calls of the trader stops here
MaxThreads == 2
MaxNotifications == 3
MaxNotifyWall == 300
MaxCallers == 3
MaxAdmitted == 4
MaxLimiterWall == 90

Insts == {1, 2}                \* worker generations (bot.start() calls) alive at once
Addrs == {"A", "B"}            \* asset addresses
EntryPrices == {100}           \* prices a venue reports for a buy
TickPrices == {50, 51, 1000}    \* prices a venue reports to the monitor / for a sell
RestartPrices == {50, 1000}     \* the same, in the restart scenario
ClockSteps == {24}             \* hours the clock advances in one step
MaxPositionsChoices == {1, 2}  \* configured trading_config.max_positions

(* Program constants *)
NoneVal == -1                  \* Python None in a numeric field
buy_amount_sol == 48000        \* 1.5 SOL
max_buy_amount_sol == 64000    \* 2.0 SOL
take_profit_multiplier == 10
moonbag_percentage == 15       \* 0.15
stop_loss_percentage == 50     \* 0.50
max_hold_hours == 24
min_safety_score == 80
min_market_cap == 10000
max_market_cap == 1000000
min_liquidity == 5000
min_volume_24h == 1000
require_locked_liquidity == TRUE
require_disabled_mint == TRUE
min_confidence == 40           \* 0.4
dedup_window == 3600
window_seconds == 60
cache_duration == 30
confirmation_timeout == 60
confirmation_interval == 2           \* seconds

VARIABLES
    running,           \* bot.running
    paused,            \* bot.paused
    max_positions,     \* trading_config.max_positions (changed only by /api/config)
    now,               \* datetime.now(), in hours
    trading_queue,     \* bot.trading_queue: address and recommendation of the queued analyses
    positions,         \* every Position object ever created, by identity (index)
    active_positions,  \* bot.active_positions: sequence of [addr, pid] in dict order
    stats,             \* bot.stats
    tr,                \* per generation: the _process_trading coroutine
    mon,               \* per generation: the _monitor_positions coroutine
    buy_log,           \* the address in the last "Failed to buy" line of the error log
    sell_log,          \* what _execute_sell_order logged last: "", "executed", "failed", "error"
    discovery_queue,   \* bot.discovery_queue: TokenDiscovery records
    discovered_tokens, \* bot.discovered_tokens: address -> last admitted TokenDiscovery
    analysis_queue,    \* bot.analysis_queue: admitted TokenDiscovery records
    analyzed_tokens,   \* bot.analyzed_tokens: address -> last TokenAnalysis
    db,                \* the database: row counts of token_discoveries and token_analyses, rows of positions
    wall,              \* time.time(), in seconds
    price_cache,       \* solana_trader.price_cache: per token the cached price and its time
    call,              \* the call of the trader in progress or last returned
    reply,             \* the JSON body of the last answer of /api/control/<action>
    threads,           \* threads started by action 'start' that have not yet run bot.start()
    exited,            \* sys.exit(0) has ended the process
    services           \* the notification manager, the rate limits of the token analyzer and
                       \* the filter configuration

vars == <<running, paused, max_positions, now, trading_queue, positions,
          active_positions, stats, tr, mon, buy_log, sell_log,
          discovery_queue, discovered_tokens, analysis_queue, analyzed_tokens, db,
          wall, price_cache, call, reply, threads, exited, services>>

trader_state == <<wall, price_cache, call>>

\* bot.notification_manager
notifier == services.notifier

\* token_analyzer.rate_limits: per API the call counter and the window start
rate_limits == services.rate_limits

\* the callers asleep in _rate_limit; per API the times of the admitted calls
\* and of the window resets
limited == services.limited

\* filter_config as /api/config reads and writes it
filter_config == services.filter_config

control_state == <<reply, threads, exited, services>>

pipeline == <<discovery_queue, discovered_tokens, analysis_queue, analyzed_tokens>>

----------------------------------------------------------------------------
(* The ledger: a Python dict keyed by token address, in insertion order *)

HasPosition(led, a) == \E k \in 1..Len(led) : led[k].addr = a

\* d[a] = pid : a present key keeps its place, a new key goes last
PutPosition(led, a, pid) ==
    IF HasPosition(led, a)
    THEN [k \in 1..Len(led) |-> IF led[k].addr = a THEN [addr |-> a, pid |-> pid] ELSE led[k]]
    ELSE Append(led, [addr |-> a, pid |-> pid])

\* del d[a]
DelPosition(led, a) == SelectSeq(led, LAMBDA e : e.addr # a)

LedgerPids(led) == {led[k].pid : k \in 1..Len(led)}

----------------------------------------------------------------------------
(* Pure functions of the bot *)

BuySize == IF buy_amount_sol <= max_buy_amount_sol THEN buy_amount_sol ELSE max_buy_amount_sol

StopLossPrice(price) == (price * (100 - stop_loss_percentage)) \div 100

TakeProfitPrice(price) == price * take_profit_multiplier

NewPosition(a, result, t) ==
    [token_address |-> a,
     entry_price |-> result.price,
     current_price |-> result.price,
     amount_sol |-> BuySize,
     tokens_held |-> result.tokens_received,
     entry_timestamp |-> t,
     status |-> "OPEN",
     pnl_percent |-> 0,
     stop_loss_price |-> StopLossPrice(result.price),
     take_profit_price |-> TakeProfitPrice(result.price)]

PnlPercent(current, entry) == ((current - entry) * 100) \div entry

\* Variant: the stop-loss test is strict
CheckExitConditionsStrictStop(p, t) ==
    IF p.current_price >= p.take_profit_price
    THEN [should_exit |-> TRUE, exit_reason |-> "TAKE_PROFIT"]
    ELSE IF p.current_price < p.stop_loss_price
    THEN [should_exit |-> TRUE, exit_reason |-> "STOP_LOSS"]
    ELSE IF t - p.entry_timestamp >= max_hold_hours
    THEN [should_exit |-> TRUE, exit_reason |-> "TIME_LIMIT"]
    ELSE [should_exit |-> FALSE, exit_reason |-> ""]

CheckExitConditions(p, t) ==
    IF p.current_price >= p.take_profit_price
    THEN [should_exit |-> TRUE, exit_reason |-> "TAKE_PROFIT"]
    ELSE IF p.current_price <= p.stop_loss_price
    THEN [should_exit |-> TRUE, exit_reason |-> "STOP_LOSS"]
    ELSE IF t - p.entry_timestamp >= max_hold_hours
    THEN [should_exit |-> TRUE, exit_reason |-> "TIME_LIMIT"]
    ELSE [should_exit |-> FALSE, exit_reason |-> ""]

\* Variant: every exit keeps the moonbag
SellPercentageKeepsMoonbag(exit_reason) == 100 - moonbag_percentage

\* sell_percentage, out of 100
SellPercentage(exit_reason) ==
    IF exit_reason = "TAKE_PROFIT" THEN 100 - moonbag_percentage ELSE 100

\* The columns of a row of the positions table that are read back
PositionRow(p) ==
    [token_address |-> p.token_address, status |-> p.status, tokens_held |-> p.tokens_held,
     amount_sol |-> p.amount_sol, current_price |-> p.current_price,
     pnl_percent |-> p.pnl_percent]

\* INSERT INTO positions ...
SavePosition(rows, p) == Append(rows, PositionRow(p))

\* UPDATE positions SET current_price, pnl_percent, status, exit_timestamp, exit_reason
\* WHERE token_address = ? AND status IN ('OPEN', 'PARTIAL_CLOSE')
UpdatePosition(rows, p) ==
    [k \in 1..Len(rows) |->
        IF rows[k].token_address = p.token_address /\ rows[k].status \in {"OPEN", "PARTIAL_CLOSE"}
        THEN [rows[k] EXCEPT !.current_price = p.current_price,
                             !.pnl_percent = p.pnl_percent,
                             !.status = p.status]
        ELSE rows[k]]

\* get_open_positions returns dicts; the loop reads position.token_address of the
\* first one, which raises AttributeError, and the handler logs it: nothing is loaded
LoadExistingPositions(led) == led

----------------------------------------------------------------------------
(* Assessment of a discovery.  Scores: safety 0..100, success_probability in       *)
(* hundredths, market score in 1/10000, combined score in 1/10000000.               *)

Min(a, b) == IF a <= b THEN a ELSE b

Max(a, b) == IF a >= b THEN a ELSE b

\* market_data = {} : every market_data.get(key, default) yields its default
EmptyMarketData ==
    [present |-> FALSE, market_cap |-> 0, liquidity |-> 0, volume_24h |-> 0,
     liquidity_locked |-> FALSE, mint_disabled |-> FALSE, age_hours |-> 24,
     holder_count |-> 1]

GoodMarketData ==
    [present |-> TRUE, market_cap |-> 100000, liquidity |-> 50000, volume_24h |-> 10000,
     liquidity_locked |-> TRUE, mint_disabled |-> TRUE, age_hours |-> 0,
     holder_count |-> 1000]

\* ai_prediction = {}
EmptyPrediction == [called |-> FALSE, success_probability |-> 0, error |-> FALSE]

\* predict_success: the normal result
Prediction(p) == [called |-> TRUE, success_probability |-> p, error |-> FALSE]

\* predict_success: the result of its exception handler
FailedPrediction == [called |-> TRUE, success_probability |-> 50, error |-> TRUE]

CheckMarketFiltersMintIgnored(md) ==
    IF md.market_cap < min_market_cap \/ md.market_cap > max_market_cap THEN FALSE
    ELSE IF md.liquidity < min_liquidity THEN FALSE
    ELSE IF md.volume_24h < min_volume_24h THEN FALSE
    ELSE IF require_locked_liquidity /\ ~md.liquidity_locked THEN FALSE
    ELSE TRUE

CheckMarketFilters(md) ==
    IF md.market_cap < min_market_cap \/ md.market_cap > max_market_cap THEN FALSE
    ELSE IF md.liquidity < min_liquidity THEN FALSE
    ELSE IF md.volume_24h < min_volume_24h THEN FALSE
    ELSE IF require_locked_liquidity /\ ~md.liquidity_locked THEN FALSE
    ELSE IF require_disabled_mint /\ ~md.mint_disabled THEN FALSE
    ELSE TRUE

\* in 1/10000
CalculateMarketScore(md) ==
    Min((3000 * Min(md.volume_24h, 10000)) \div 10000
        + (3000 * Min(md.liquidity, 50000)) \div 50000
        + (2000 * Max(0, 24 - md.age_hours)) \div 24
        + (2000 * Min(md.holder_count, 1000)) \div 1000,
        10000)

\* (safety_score * 0.4 + ai_score * 100 * 0.4 + market_score * 0.2) / 100, in 1/10000000
CombinedScore(safety_score, md, ai) ==
    40000 * safety_score + 40000 * ai.success_probability + 2 * CalculateMarketScore(md)

GetRecommendation(safety_score, md, ai) ==
    IF safety_score < min_safety_score THEN "PASS"
    ELSE IF CombinedScore(safety_score, md, ai) >= 7500000 THEN "BUY"
    ELSE IF CombinedScore(safety_score, md, ai) >= 6000000 THEN "MONITOR"
    ELSE "PASS"

NoDiscovery == [contract_address |-> "", timestamp |-> NoneVal, confidence_score |-> 0]

NoAnalysis ==
    [token_discovery |-> NoDiscovery, safety_score |-> NoneVal,
     market_data |-> EmptyMarketData, ai_prediction |-> EmptyPrediction,
     filter_passed |-> FALSE, analysis_timestamp |-> NoneVal, recommendation |-> ""]

\* _analyze_token for discovery d, given what get_safety_score, get_market_data and
\* predict_success return (each of them catches its own failures: 0, {} and the
\* 0.5 default)
AnalyzeToken(d, safety_score, md, ai, t) ==
    IF safety_score < min_safety_score
    THEN [token_discovery |-> d, safety_score |-> safety_score,
          market_data |-> EmptyMarketData, ai_prediction |-> EmptyPrediction,
          filter_passed |-> FALSE, analysis_timestamp |-> t, recommendation |-> "PASS"]
    ELSE IF ~CheckMarketFilters(md)
    THEN [token_discovery |-> d, safety_score |-> safety_score,
          market_data |-> md, ai_prediction |-> EmptyPrediction,
          filter_passed |-> FALSE, analysis_timestamp |-> t, recommendation |-> "PASS"]
    ELSE LET recommendation == GetRecommendation(safety_score, md, ai) IN
         [token_discovery |-> d, safety_score |-> safety_score,
          market_data |-> md, ai_prediction |-> ai,
          filter_passed |-> recommendation \in {"BUY", "MONITOR"},
          analysis_timestamp |-> t, recommendation |-> recommendation]

\* timedelta.seconds of a non-negative difference of h hours: the days are left out
TimedeltaSeconds(h) == (h * 3600) % 86400

\* What the providers return
SafetyReturns == {0, 79, 80, 90, 100}

MarketReturns ==
    {EmptyMarketData, GoodMarketData,
     [GoodMarketData EXCEPT !.age_hours = 24],
     [GoodMarketData EXCEPT !.market_cap = 10000],
     [GoodMarketData EXCEPT !.market_cap = 5000],
     [GoodMarketData EXCEPT !.market_cap = 2000000],
     [GoodMarketData EXCEPT !.liquidity = 4000],
     [GoodMarketData EXCEPT !.volume_24h = 500],
     [GoodMarketData EXCEPT !.liquidity_locked = FALSE],
     [GoodMarketData EXCEPT !.mint_disabled = FALSE]}

AiReturns == {FailedPrediction, Prediction(50), Prediction(90), Prediction(100)}

Confidences == {30, 40, 90}

----------------------------------------------------------------------------
(* Venue results (TradeResult.__dict__) *)

FailedResult ==
    [success |-> FALSE, dex |-> "none", price |-> NoneVal,
     tokens_received |-> NoneVal, sol_received |-> NoneVal]

\* _execute_raydium_swap, direction buy: tokens_received = amount / price
RaydiumBuy(amount, price) ==
    [success |-> TRUE, dex |-> "raydium", price |-> price,
     tokens_received |-> (amount * 100) \div price, sol_received |-> NoneVal]

\* _execute_raydium_swap, direction sell: sol_received = amount * price
RaydiumSell(amount, price) ==
    [success |-> TRUE, dex |-> "raydium", price |-> price,
     tokens_received |-> NoneVal, sol_received |-> (amount * price) \div 100]

\* _execute_jupiter_swap: neither tokens_received nor sol_received is set
JupiterSwap(price) ==
    [success |-> TRUE, dex |-> "jupiter", price |-> price,
     tokens_received |-> NoneVal, sol_received |-> NoneVal]

BuyResults(amount) ==
    {FailedResult} \cup {RaydiumBuy(amount, p) : p \in EntryPrices}
                   \cup {JupiterSwap(p) : p \in EntryPrices}

\* The TradeResult of a sell by the venue that executed it.  The Raydium quote reads
\* get_token_price, which within cache_duration (30 s) is the price the monitor's
\* lookup of this tick stored in the position
SellResult(venue, amount, p) ==
    IF venue = "raydium" THEN RaydiumSell(amount, p.current_price)
    ELSE IF venue = "jupiter" THEN JupiterSwap(p.current_price)
    ELSE FailedResult

Venues == {"jupiter", "raydium", "failed"}

----------------------------------------------------------------------------
(* The trader (SolanaTrader): price lookup, quotes, execution, confirmation.  Time *)
(* is in seconds: wall is time.time() as the calls read it on entry, and the time  *)
(* a call spends polling is counted in the call (waited).                          *)

NoCacheEntry == [price |-> NoneVal, timestamp |-> NoneVal]

CacheFreshInclusive(cache, a, t) ==
    /\ cache[a] # NoCacheEntry
    /\ t - cache[a].timestamp <= cache_duration

\* "Check cache first"
CacheFresh(cache, a, t) ==
    /\ cache[a] # NoCacheEntry
    /\ t - cache[a].timestamp < cache_duration

\* get_token_price(a) at time t; answer is what _get_jupiter_price returns if it is
\* asked (NoneVal: no price).  Yields the returned price, the cache afterwards and
\* whether the venue was asked
GetTokenPrice(cache, a, t, answer) ==
    IF CacheFresh(cache, a, t)
    THEN [price |-> cache[a].price, cache |-> cache, queried |-> FALSE]
    ELSE IF answer # NoneVal
    THEN [price |-> answer,
          cache |-> [cache EXCEPT ![a] = [price |-> answer, timestamp |-> t]],
          queried |-> TRUE]
    ELSE [price |-> NoneVal, cache |-> cache, queried |-> TRUE]

NoQuote == [dex |-> "none", price |-> NoneVal, asked |-> {}]

\* _get_raydium_quote: priced by get_token_price
GetRaydiumQuote(cache, a, t, answer) ==
    LET lookup == GetTokenPrice(cache, a, t, answer) IN
    [quote |-> IF lookup.price # NoneVal
               THEN [dex |-> "raydium", price |-> lookup.price, asked |-> {"jupiter", "raydium"}]
               ELSE [NoQuote EXCEPT !.asked = {"jupiter", "raydium"}],
     cache |-> lookup.cache, queried |-> lookup.queried]

GetQuoteRaydiumFirst(cache, a, t, jupiter_quote, answer) ==
    LET r == GetRaydiumQuote(cache, a, t, answer) IN
    IF r.quote.dex = "raydium" THEN r
    ELSE IF jupiter_quote # NoneVal
    THEN [quote |-> [dex |-> "jupiter", price |-> jupiter_quote, asked |-> {"jupiter", "raydium"}],
          cache |-> r.cache, queried |-> r.queried]
    ELSE r

\* _get_buy_quote / _get_sell_quote: jupiter_quote is the price of the quote that
\* _get_jupiter_quote returns (NoneVal: it returns None)
GetQuote(cache, a, t, jupiter_quote, answer) ==
    IF jupiter_quote # NoneVal
    THEN [quote |-> [dex |-> "jupiter", price |-> jupiter_quote, asked |-> {"jupiter"}],
          cache |-> cache, queried |-> FALSE]
    ELSE GetRaydiumQuote(cache, a, t, answer)

\* get_signature_status: the confirmation status and whether the transaction erred
Statuses ==
    [confirmation_status : {"", "processed", "confirmed", "finalized"}, err : BOOLEAN]

\* One poll of _wait_for_confirmation: "true", "false", or "" to poll again
PollOutcome(status) ==
    IF status.confirmation_status \in {"confirmed", "finalized"} THEN "true"
    ELSE IF status.confirmation_status # "" /\ status.err THEN "false"
    ELSE ""

\* _execute_jupiter_swap after _wait_for_confirmation returned confirmed: the return
\* value is not read
JupiterSwapResult(price, confirmed) == JupiterSwap(price)

\* _execute_buy_trade / _execute_sell_trade on the Raydium quote
RaydiumSwap(op, amount, price) ==
    IF op = "buy" THEN RaydiumBuy(amount, price) ELSE RaydiumSell(amount, price)

IdleCall ==
    [op |-> "none", pc |-> "idle", token |-> "", amount |-> 0, primary |-> NoneVal,
     quote |-> NoQuote,
     executed_on |-> "none", waited |-> 0, confirmed |-> "", queried |-> FALSE,
     answer |-> NoneVal, price |-> NoneVal, result |-> FailedResult]

----------------------------------------------------------------------------
IdleTrader == [pc |-> "none", addr |-> ""]

IdleMonitor ==
    [pc |-> "none", todo |-> <<>>, cur |-> 0, reason |-> "",
     tokens_to_sell |-> 0, result |-> FailedResult]

\* NotificationLevel
Levels == {"low", "medium", "high", "critical"}

\* NotificationManager.__init__: nothing sent, nothing stored; in_flight holds the
\* notifications handed to the webhook channel whose send has not returned, and
\* rate_limited the level of the last "Rate limited notification" log line
NoNotifications ==
    [last_notification_time |-> [l \in {} |-> 0],
     notification_history |-> <<>>,
     in_flight |-> <<>>,
     rate_limited |-> ""]

\* The rate limited data APIs followed here, and the coroutines that call them
Apis == {"solsniffer", "gmgn"}

Callers == 1..MaxCallers

\* self.rate_limits after __init__: reset_time 0 is long before the start of
\* the process (time 0 of wall), written as a window that has already run out
NoCalls == [api \in Apis |-> [calls |-> 0, reset_time |-> 0 - window_seconds]]

\* no coroutine is inside _rate_limit and no call has been admitted; sleeping
\* gives, for each caller in asyncio.sleep, the API and the time its sleep ends
NoCallers ==
    [sleeping |-> [c \in {} |-> 0],
     admitted |-> [api \in Apis |-> <<>>],
     resets |-> [api \in Apis |-> {}]]

Sleeping(c) == c \in DOMAIN limited.sleeping

\* The services after construction
NoServices ==
    [notifier |-> NoNotifications,
     rate_limits |-> NoCalls,
     limited |-> NoCallers,
     filter_config |-> [min_safety_score |-> min_safety_score]]

\* No request has been answered yet
NoReply == [action |-> "", success |-> FALSE, reason |-> ""]

Init ==
    /\ running = FALSE
    /\ paused = FALSE
    /\ max_positions \in MaxPositionsChoices
    /\ now = 0
    /\ trading_queue = <<>>
    /\ positions = <<>>
    /\ active_positions = <<>>
    /\ stats = [tokens_discovered |-> 0, tokens_analyzed |-> 0,
                positions_opened |-> 0, positions_closed |-> 0, total_pnl |-> 0]
    /\ tr = [i \in Insts |-> IdleTrader]
    /\ mon = [i \in Insts |-> IdleMonitor]
    /\ buy_log = ""
    /\ sell_log = ""
    /\ discovery_queue = <<>>
    /\ discovered_tokens = [a \in Addrs |-> NoDiscovery]
    /\ analysis_queue = <<>>
    /\ analyzed_tokens = [a \in Addrs |-> NoAnalysis]
    /\ db = [discoveries |-> 0, analyses |-> 0, positions |-> <<>>]
    /\ wall = 0
    /\ price_cache = [a \in Addrs |-> NoCacheEntry]
    /\ call = IdleCall
    /\ reply = NoReply
    /\ threads = 0
    /\ exited = FALSE
    /\ services = NoServices


----------------------------------------------------------------------------
(* Control surface: /api/control/<action> and SolanaMemecoinBot.start/stop/pause/resume *)

LiveInsts == {i \in Insts : tr[i].pc # "none" \/ mon[i].pc # "none"}

FreeInsts == Insts \ LiveInsts

\* action == 'start': if not bot.running, a thread runs bot.start(): running = True,
\* positions loaded, one more set of workers gathered
ApiStart ==
    /\ ~exited
    /\ ~running
    /\ FreeInsts # {}
    /\ LET i == CHOOSE k \in FreeInsts : \A j \in FreeInsts : k <= j IN
        /\ tr' = [tr EXCEPT ![i] = [IdleTrader EXCEPT !.pc = "loop"]]
        /\ mon' = [mon EXCEPT ![i] = [IdleMonitor EXCEPT !.pc = "loop"]]
    /\ running' = TRUE
    /\ active_positions' = LoadExistingPositions(active_positions)
    /\ UNCHANGED <<control_state, trader_state, pipeline, buy_log, db, sell_log, paused, max_positions, now, trading_queue, positions, stats>>

\* action == 'stop': bot.stop() clears running; nothing waits for the workers
ApiStop ==
    /\ running
    /\ running' = FALSE
    /\ UNCHANGED <<control_state, trader_state, pipeline, buy_log, db, sell_log, paused, max_positions, now, trading_queue, positions,
                   active_positions, stats, tr, mon>>

ApiPause ==
    /\ running /\ ~paused
    /\ paused' = TRUE
    /\ UNCHANGED <<control_state, trader_state, pipeline, buy_log, db, sell_log, running, max_positions, now, trading_queue, positions,
                   active_positions, stats, tr, mon>>

ApiResume ==
    /\ running /\ paused
    /\ paused' = FALSE
    /\ UNCHANGED <<control_state, trader_state, pipeline, buy_log, db, sell_log, running, max_positions, now, trading_queue, positions,
                   active_positions, stats, tr, mon>>

\* The route /api/control/<action> as a function of the two flags: the flags it
\* leaves, the JSON body it returns, and whether it starts a thread for bot.start()
Control(action, r, p) ==
    IF action = "start"
    THEN IF ~r
         THEN [running |-> r, paused |-> p, spawn |-> TRUE,
               success |-> TRUE, reason |-> "Bot starting"]
         ELSE [running |-> r, paused |-> p, spawn |-> FALSE,
               success |-> FALSE, reason |-> "Bot already running"]
    ELSE IF action = "stop"
    THEN IF r
         THEN [running |-> FALSE, paused |-> p, spawn |-> FALSE,
               success |-> TRUE, reason |-> "Bot stopped"]
         ELSE [running |-> r, paused |-> p, spawn |-> FALSE,
               success |-> FALSE, reason |-> "Bot not running"]
    ELSE IF action = "pause"
    THEN IF r /\ ~p
         THEN [running |-> r, paused |-> TRUE, spawn |-> FALSE,
               success |-> TRUE, reason |-> "Bot paused"]
         ELSE [running |-> r, paused |-> p, spawn |-> FALSE,
               success |-> FALSE, reason |-> "Bot not running or already paused"]
    ELSE IF action = "resume"
    THEN IF r /\ p
         THEN [running |-> r, paused |-> FALSE, spawn |-> FALSE,
               success |-> TRUE, reason |-> "Bot resumed"]
         ELSE [running |-> r, paused |-> p, spawn |-> FALSE,
               success |-> FALSE, reason |-> "Bot not paused"]
    ELSE [running |-> r, paused |-> p, spawn |-> FALSE,
          success |-> FALSE, reason |-> "Unknown action"]

ControlActions == {"start", "stop", "pause", "resume"}

\* One request to /api/control/<action>, from its arrival to its answer
ApiControl(action) ==
    LET c == Control(action, running, paused) IN
    /\ c.spawn => threads + Cardinality(LiveInsts) < MaxThreads
    /\ running' = c.running
    /\ paused' = c.paused
    /\ threads' = IF c.spawn THEN threads + 1 ELSE threads
    /\ reply' = [action |-> action, success |-> c.success, reason |-> c.reason]
    /\ UNCHANGED <<exited, services, trader_state, pipeline, buy_log, db, sell_log, max_positions, now, trading_queue,
                   positions, active_positions, stats, tr, mon>>

\* What bot.start() meets: the configuration is valid and the database opens ("ok"),
\* validate_config() fails ("invalid"), or db_manager.initialize() raises ("error")
StartOutcomes == {"ok", "invalid", "error"}

\* _run_bot_async: the thread of a 'start' runs bot.start() up to asyncio.gather
StartBot(outcome) ==
    /\ threads > 0
    /\ threads' = threads - 1
    /\ running' = IF outcome = "invalid" THEN running ELSE TRUE
    /\ IF outcome = "ok"
       THEN /\ FreeInsts # {}
            /\ LET i == CHOOSE k \in FreeInsts : \A j \in FreeInsts : k <= j IN
                 /\ tr' = [tr EXCEPT ![i] = [IdleTrader EXCEPT !.pc = "loop"]]
                 /\ mon' = [mon EXCEPT ![i] = [IdleMonitor EXCEPT !.pc = "loop"]]
            /\ active_positions' = LoadExistingPositions(active_positions)
       ELSE UNCHANGED <<tr, mon, active_positions>>
    /\ UNCHANGED <<reply, exited, services, trader_state, pipeline, buy_log, db, sell_log, paused, max_positions,
                   now, trading_queue, positions, stats>>

\* SIGINT or SIGTERM: _signal_handler calls stop() and then sys.exit(0).  SystemExit
\* leaves the event loop, which cancels every task where it stands (CancelledError is
\* not an Exception, so no handler of the workers sees it), and the process ends.
ShutdownSignal ==
    /\ ~exited
    /\ exited' = TRUE
    /\ running' = FALSE
    /\ tr' = [i \in Insts |-> IdleTrader]
    /\ mon' = [i \in Insts |-> IdleMonitor]
    /\ UNCHANGED <<reply, threads, services, trader_state, pipeline, buy_log, db, sell_log, paused, max_positions, now,
                   trading_queue, positions, active_positions, stats>>

\* The process is ended and run again: a new SolanaMemecoinBot is constructed
\* (empty ledger, empty queues, zeroed statistics); the database file stays.  The
\* Position objects of the old process are unreachable from the new ledger.
ProcessRestart ==
    /\ LiveInsts = {}
    /\ ~running
    /\ exited' = FALSE
    /\ paused' = FALSE
    /\ active_positions' = <<>>
    /\ trading_queue' = <<>>
    /\ stats' = [tokens_discovered |-> 0, tokens_analyzed |-> 0,
                 positions_opened |-> 0, positions_closed |-> 0, total_pnl |-> 0]
    /\ services' = [NoServices EXCEPT !.filter_config = filter_config]
    /\ UNCHANGED <<reply, threads, trader_state, pipeline, buy_log, db, sell_log, running, max_positions,
                   now, positions, tr, mon>>

----------------------------------------------------------------------------
(* Configuration updates: POST /api/config *)

\* A value of the request: absent, or given as text that int() takes or rejects
Absent == [given |-> FALSE, parses |-> FALSE, value |-> 0]

Given(v) == [given |-> TRUE, parses |-> TRUE, value |-> v]

Unparsable == [given |-> TRUE, parses |-> FALSE, value |-> 0]

\* Config.validate on the trading and filter values
Validate(positions_limit, filters) ==
    /\ positions_limit > 0
    /\ 0 <= filters.min_safety_score
    /\ filters.min_safety_score <= 100

\* The POST branch of api_config on the sections 'trading' and 'filters' of the
\* request: each value is converted and set on the shared config object in
\* turn, field_type(value) raises on a text it cannot convert, and the
\* configuration is validated at the end
ConfigUpdate(positions_limit, filters, req) ==
    IF req.max_positions.given /\ ~req.max_positions.parses
    THEN [max_positions |-> positions_limit, filters |-> filters, success |-> FALSE, reason |-> "raised"]
    ELSE LET new_limit == IF req.max_positions.given THEN req.max_positions.value
                                                     ELSE positions_limit
         IN IF req.min_safety_score.given /\ ~req.min_safety_score.parses
            THEN [max_positions |-> new_limit, filters |-> filters, success |-> FALSE,
                  reason |-> "raised"]
            ELSE LET new_filters == IF req.min_safety_score.given
                                    THEN [filters EXCEPT !.min_safety_score = req.min_safety_score.value]
                                    ELSE filters
                 IN [max_positions |-> new_limit, filters |-> new_filters,
                     success |-> Validate(new_limit, new_filters),
                     reason |-> IF Validate(new_limit, new_filters) THEN "" ELSE "invalid"]

\* POST /api/config
ApiConfig(req) ==
    /\ LET c == ConfigUpdate(max_positions, filter_config, req) IN
       /\ max_positions' = c.max_positions
       /\ services' = [services EXCEPT !.filter_config = c.filters]
       /\ reply' = [action |-> "config", success |-> c.success, reason |-> c.reason]
    /\ UNCHANGED <<threads, exited, trader_state, pipeline, buy_log, db,
                   sell_log, running, paused, now, trading_queue, positions, active_positions, stats,
                   tr, mon>>

----------------------------------------------------------------------------
(* Notification manager *)

\* self.min_interval, in seconds
min_interval(level) ==
    CASE level = "low" -> 300
      [] level = "medium" -> 120
      [] level = "high" -> 60
      [] level = "critical" -> 0

\* self.last_notification_time[level_key] = current_time
SetLast(last, level, t) ==
    [l \in DOMAIN last \cup {level} |-> IF l = level THEN t ELSE last[l]]

\* Variant: a rate limited notification restarts the interval of its level
CheckRateLimitRestarts(last, level, t) ==
    IF level \notin DOMAIN last
    THEN [ok |-> TRUE, last |-> SetLast(last, level, t)]
    ELSE IF t - last[level] >= min_interval(level)
    THEN [ok |-> TRUE, last |-> SetLast(last, level, t)]
    ELSE [ok |-> FALSE, last |-> SetLast(last, level, t)]

\* _check_rate_limit at time t: what it returns, and last_notification_time
\* after it
CheckRateLimit(last, level, t) ==
    IF level \notin DOMAIN last
    THEN [ok |-> TRUE, last |-> SetLast(last, level, t)]
    ELSE IF t - last[level] >= min_interval(level)
    THEN [ok |-> TRUE, last |-> SetLast(last, level, t)]
    ELSE [ok |-> FALSE, last |-> last]

\* send_notification up to its await of the webhook channel (a webhook is
\* configured): the Notification is built, the rate limit checked, and the
\* notification handed to the channel; a rate limited one is logged and
\* send_notification returns False
Admit(n, level, t) ==
    LET c == CheckRateLimit(n.last_notification_time, level, t) IN
    IF c.ok
    THEN [n EXCEPT !.last_notification_time = c.last,
                   !.in_flight = Append(@, [level |-> level, timestamp |-> t])]
    ELSE [n EXCEPT !.last_notification_time = c.last, !.rate_limited = level]

\* send_notification from the return (or exception) of the channel:
\* _store_notification appends the k-th notification in flight to the history
Store(n, k) ==
    [n EXCEPT !.notification_history = Append(@, n.in_flight[k]),
              !.in_flight = [j \in 1..(Len(@) - 1) |-> IF j < k THEN @[j] ELSE @[j + 1]]]

\* send_notification as its caller sees it, from the call to the return: the
\* notification is rate limited, or handed to the channel and stored
Notify(n, level, t) ==
    LET a == Admit(n, level, t) IN
    IF Len(a.in_flight) > Len(n.in_flight) THEN Store(a, Len(a.in_flight)) ELSE a

\* A caller awaits send_notification(message, level=level)
SendNotification(level) ==
    /\ Len(notifier.notification_history) + Len(notifier.in_flight) < MaxNotifications
    /\ services' = [services EXCEPT !.notifier = Admit(notifier, level, wall)]
    /\ UNCHANGED <<reply, threads, exited, trader_state, pipeline, buy_log, db, sell_log,
                   running, paused, max_positions, now, trading_queue, positions, active_positions, stats,
                   tr, mon>>

\* The webhook channel of one notification in flight returns
ChannelReturn(k) ==
    /\ k \in 1..Len(notifier.in_flight)
    /\ services' = [services EXCEPT !.notifier = Store(notifier, k)]
    /\ UNCHANGED <<reply, threads, exited, trader_state, pipeline, buy_log, db, sell_log,
                   running, paused, max_positions, now, trading_queue, positions, active_positions, stats,
                   tr, mon>>

\* the steps of the clock of the notification manager, in seconds
NotifySteps == {60}

\* datetime.now() moves on by d seconds
NotifierTick(d) ==
    /\ wall + d <= MaxNotifyWall
    /\ wall' = wall + d
    /\ UNCHANGED <<control_state, price_cache, call, pipeline, buy_log, db, sell_log, running, paused,
                   max_positions, now, trading_queue, positions, active_positions, stats, tr, mon>>

----------------------------------------------------------------------------
(* Rate limiting of the data APIs *)

\* 'limit_per_minute' of an API, scaled down from 30 (solsniffer) and 60 (gmgn)
limit_per_minute(api) == IF api = "solsniffer" THEN 2 ELSE 3

\* "Reset counter if minute has passed"
WindowReset(rl, t) ==
    IF t - rl.reset_time >= window_seconds
    THEN [calls |-> 0, reset_time |-> t]
    ELSE rl

\* self.rate_limits and the callers after a step of _rate_limit
Limiter(rl, callers) ==
    services' = [services EXCEPT !.rate_limits = rl, !.limited = callers]

\* _rate_limit(api) by caller c from its start to its return or to its
\* "await asyncio.sleep(sleep_time)"
RateLimit(c, api) ==
    /\ ~Sleeping(c)
    /\ Len(limited.admitted[api]) < MaxAdmitted
    /\ LET rl == WindowReset(rate_limits[api], wall)
           reset == rl # rate_limits[api]
           sleep_time == window_seconds - (wall - rl.reset_time)
           resets == IF reset THEN limited.resets[api] \cup {wall} ELSE limited.resets[api]
       IN
       IF rl.calls >= limit_per_minute(api)
       THEN IF sleep_time > 0
            THEN Limiter([rate_limits EXCEPT ![api] = rl],
                         [limited EXCEPT
                             !.sleeping = [x \in DOMAIN @ \cup {c} |->
                                              IF x = c THEN [api |-> api, wake |-> wall + sleep_time]
                                                       ELSE @[x]],
                             !.resets[api] = resets])
            ELSE Limiter([rate_limits EXCEPT ![api] = [calls |-> 1, reset_time |-> wall]],
                         [limited EXCEPT !.admitted[api] = Append(@, wall),
                                         !.resets[api] = resets \cup {wall}])
       ELSE Limiter([rate_limits EXCEPT ![api] = [rl EXCEPT !.calls = @ + 1]],
                    [limited EXCEPT !.admitted[api] = Append(@, wall),
                                    !.resets[api] = resets])
    /\ UNCHANGED <<reply, threads, exited, trader_state, pipeline, buy_log, db, sell_log,
                   running, paused, max_positions, now, trading_queue, positions, active_positions, stats,
                   tr, mon>>

\* _rate_limit from the return of asyncio.sleep: "Reset after sleeping", then
\* "Increment call counter"
RateLimitWake(c) ==
    /\ Sleeping(c)
    /\ wall >= limited.sleeping[c].wake
    /\ LET api == limited.sleeping[c].api IN
       Limiter([rate_limits EXCEPT ![api] = [calls |-> 1, reset_time |-> wall]],
               [limited EXCEPT !.sleeping = [x \in DOMAIN @ \ {c} |-> @[x]],
                               !.admitted[api] = Append(@, wall),
                               !.resets[api] = @ \cup {wall}])
    /\ UNCHANGED <<reply, threads, exited, trader_state, pipeline, buy_log, db, sell_log,
                   running, paused, max_positions, now, trading_queue, positions, active_positions, stats,
                   tr, mon>>

\* time.time() moves on by d seconds; a sleeper whose time has come runs first,
\* and the clock does not stop under a sleeper
LimiterTick(d) ==
    /\ wall + d <= MaxLimiterWall \/ \E c \in Callers : Sleeping(c)
    /\ \A c \in Callers : Sleeping(c) => wall < limited.sleeping[c].wake
    /\ wall' = wall + d
    /\ UNCHANGED <<control_state, price_cache, call, pipeline, buy_log, db, sell_log, running, paused,
                   max_positions, now, trading_queue, positions, active_positions, stats, tr, mon>>

----------------------------------------------------------------------------
(* Environment *)

\* Variant: get() hands out the item put last
QueueGetNewest(q) == [item |-> q[Len(q)], rest |-> SubSeq(q, 1, Len(q) - 1)]

\* queue.Queue.get(): the item put first, and the queue without it
QueueGet(q) == [item |-> Head(q), rest |-> Tail(q)]

\* What the trading worker reads of a queued TokenAnalysis
QueuedAnalysis(a, recommendation) == [contract_address |-> a, recommendation |-> recommendation]

Recommendations == {"BUY", "MONITOR", "PASS"}

\* _process_analysis puts an analysis with recommendation BUY for address a on the
\* trading queue.  The queue keeps entries for as long as the bot is paused, so BUY
\* analyses of two admissions of one address (one hour apart) can wait together.
QueueAnalysisUpTo(room, a, recommendation, filter_passed) ==
    /\ running
    /\ filter_passed /\ recommendation = "BUY"
    /\ Len(trading_queue) < room
    /\ trading_queue' = Append(trading_queue, QueuedAnalysis(a, recommendation))
    /\ UNCHANGED <<control_state, trader_state, pipeline, buy_log, db, sell_log, running, paused, max_positions, now, positions,
                   active_positions, stats, tr, mon>>

QueueAnalysis(a, recommendation, filter_passed) ==
    QueueAnalysisUpTo(MaxQueue, a, recommendation, filter_passed)

AdvanceClock(d) ==
    /\ now + d <= MaxHours
    /\ now' = now + d
    /\ UNCHANGED <<control_state, trader_state, pipeline, buy_log, db, sell_log, running, paused, max_positions, trading_queue, positions,
                   active_positions, stats, tr, mon>>

----------------------------------------------------------------------------
(* Discovery and analysis workers *)

\* _process_social_message: a monitor found a token in a message
SignalUpTo(room, a, confidence) ==
    /\ running
    /\ stats.tokens_discovered < MaxSignals
    /\ Len(discovery_queue) < room
    /\ discovery_queue' = Append(discovery_queue,
           [contract_address |-> a, timestamp |-> now, confidence_score |-> confidence])
    /\ stats' = [stats EXCEPT !.tokens_discovered = @ + 1]
    /\ UNCHANGED <<control_state, trader_state, buy_log, running, paused, max_positions, now, trading_queue, positions,
                   active_positions, tr, mon, sell_log,
                   discovered_tokens, analysis_queue, analyzed_tokens, db>>

Signal(a, confidence) == SignalUpTo(MaxQueue, a, confidence)

SeenRecentlyFlipped(d, seen, t) ==
    /\ seen[d.contract_address] # NoDiscovery
    /\ TimedeltaSeconds(t - seen[d.contract_address].timestamp) >= dedup_window

\* Variant: only a signal that clears the confidence gate opens the window
SeenRecentlyConfident(d, seen, t) ==
    /\ seen[d.contract_address] # NoDiscovery
    /\ seen[d.contract_address].confidence_score >= min_confidence
    /\ TimedeltaSeconds(t - seen[d.contract_address].timestamp) < dedup_window

\* "already analyzed recently"
SeenRecently(d, seen, t) ==
    /\ seen[d.contract_address] # NoDiscovery
    /\ TimedeltaSeconds(t - seen[d.contract_address].timestamp) < dedup_window

\* save_discovery: a row more in token_discoveries, or, when sqlite raises, the
\* error logged and 0 returned
SaveDiscovery(d, saved) ==
    IF saved THEN [d EXCEPT !.discoveries = @ + 1] ELSE d

\* One pass of the while loop of _process_discoveries with a discovery waiting;
\* save_discovery has no await inside, so the pass is one turn of the event loop
ProcessDiscoveriesSaving(room, saved) ==
    /\ running
    /\ discovery_queue # <<>>
    /\ LET discovery == QueueGet(discovery_queue).item IN
       /\ discovery_queue' = QueueGet(discovery_queue).rest
       /\ IF SeenRecently(discovery, discovered_tokens, now)
          THEN UNCHANGED <<discovered_tokens, analysis_queue, db>>
          ELSE /\ Len(analysis_queue) < room
               /\ discovered_tokens' =
                     [discovered_tokens EXCEPT ![discovery.contract_address] = discovery]
               /\ analysis_queue' = Append(analysis_queue, discovery)
               /\ db' = SaveDiscovery(db, saved)
    /\ UNCHANGED <<control_state, trader_state, buy_log, running, paused, max_positions, now, trading_queue, positions,
                   active_positions, stats, tr, mon, sell_log, analyzed_tokens>>

\* The pass when the database takes the row
ProcessDiscoveriesUpTo(room) == ProcessDiscoveriesSaving(room, TRUE)

ProcessDiscoveries == ProcessDiscoveriesUpTo(MaxQueue)

LowConfidenceInclusive(d) == d.confidence_score <= min_confidence

\* "Skip if confidence too low"
LowConfidence(d) == d.confidence_score < min_confidence

\* One pass of the while loop of _process_analysis with a discovery waiting; the
\* providers return safety_score, md and ai
ProcessAnalysisUpTo(room, safety_score, md, ai) ==
    /\ running
    /\ analysis_queue # <<>>
    /\ LET discovery == QueueGet(analysis_queue).item
           analysis == AnalyzeToken(discovery, safety_score, md, ai, now)
       IN
       /\ analysis_queue' = QueueGet(analysis_queue).rest
       /\ IF LowConfidence(discovery)
          THEN UNCHANGED <<analyzed_tokens, stats, db, trading_queue>>
          ELSE /\ analyzed_tokens' =
                     [analyzed_tokens EXCEPT ![discovery.contract_address] = analysis]
               /\ stats' = [stats EXCEPT !.tokens_analyzed = @ + 1]
               /\ db' = [db EXCEPT !.analyses = @ + 1]
               /\ IF analysis.filter_passed /\ analysis.recommendation = "BUY"
                  THEN /\ Len(trading_queue) < room
                       /\ trading_queue' = Append(trading_queue,
                             QueuedAnalysis(discovery.contract_address, analysis.recommendation))
                  ELSE UNCHANGED trading_queue
    /\ UNCHANGED <<control_state, trader_state, buy_log, running, paused, max_positions, now, positions,
                   active_positions, tr, mon, sell_log,
                   discovery_queue, discovered_tokens>>

ProcessAnalysis(safety_score, md, ai) == ProcessAnalysisUpTo(MaxQueue, safety_score, md, ai)

----------------------------------------------------------------------------
(* Trading worker *)

MaxPositionsExceeded(led, limit) == Len(led) > limit

\* "Check position limits"
MaxPositionsReached(led, limit) == Len(led) >= limit

\* One pass of the while loop of _process_trading up to the await of buy_token
TradingLoop(i) ==
    /\ tr[i].pc = "loop"
    /\ UNCHANGED <<control_state, trader_state, pipeline, buy_log, db, sell_log, running, paused, max_positions, now, positions,
                   active_positions, stats, mon>>
    /\ IF ~running
       THEN /\ tr' = [tr EXCEPT ![i] = IdleTrader]
            /\ UNCHANGED trading_queue
       ELSE IF paused \/ trading_queue = <<>>
       THEN UNCHANGED <<tr, trading_queue>>
       ELSE LET a == QueueGet(trading_queue).item.contract_address IN
            /\ trading_queue' = QueueGet(trading_queue).rest
            /\ IF MaxPositionsReached(active_positions, max_positions)
               THEN UNCHANGED tr
               ELSE IF HasPosition(active_positions, a)
               THEN UNCHANGED tr
               ELSE tr' = [tr EXCEPT ![i] = [pc |-> "buy", addr |-> a]]

\* Variant: the failure ends the worker
AfterFailedBuyLeaves(w) == IdleTrader

\* _execute_buy_order has returned False: the worker sleeps and loops
AfterFailedBuy(w) == [w EXCEPT !.pc = "loop", !.addr = ""]

BuySucceededAlways(result) == TRUE

\* if result['success']:
BuySucceeded(result) == result.success

\* What _execute_buy_order returns for a result of buy_token: "return True"
\* is reached when result['success'] holds and the notification text is
\* built, and f"{result['tokens_received']:,.0f}" raises TypeError on None,
\* which "except Exception" turns into "return False"
ExecuteBuyOrderReturns(result) ==
    BuySucceeded(result) /\ result.tokens_received # NoneVal

\* _execute_buy_order from the return of buy_token to its own return; n is the
\* notification manager after the "Position Opened" notification
BuyOrder(i, result, n) ==
    /\ tr[i].pc = "buy"
    /\ BuySucceeded(result) => Len(positions) < MaxPids
    /\ UNCHANGED <<reply, threads, exited, trader_state, pipeline, sell_log, running, paused,
                   max_positions, now, trading_queue, mon>>
    /\ services' = [services EXCEPT !.notifier = IF ExecuteBuyOrderReturns(result) THEN n ELSE @]
    /\ IF BuySucceeded(result)
       THEN LET pid == Len(positions) + 1 IN
            /\ positions' = Append(positions, NewPosition(tr[i].addr, result, now))
            /\ active_positions' = PutPosition(active_positions, tr[i].addr, pid)
            /\ stats' = [stats EXCEPT !.positions_opened = @ + 1]
            \* await self.db_manager.save_position(position)
            /\ db' = [db EXCEPT !.positions = SavePosition(@, NewPosition(tr[i].addr, result, now))]
            \* the notification formats tokens_received with ":,.0f": TypeError on None
            /\ tr' = [tr EXCEPT ![i] = [pc |-> "loop", addr |-> ""]]
            /\ UNCHANGED buy_log
       ELSE /\ tr' = [tr EXCEPT ![i] = AfterFailedBuy(tr[i])]
            \* self.logger.error(f"Failed to buy {symbol}: {result['error']}")
            /\ buy_log' = tr[i].addr
            /\ UNCHANGED <<positions, active_positions, stats, db>>

\* The buy with the notification manager left out of the state
BuyReturn(i, result) == BuyOrder(i, result, notifier)

\* The buy with its notification, sent at the default level
BuyReturnNotifying(i, result) == BuyOrder(i, result, Notify(notifier, "medium", wall))

----------------------------------------------------------------------------
(* Position monitor *)

RECURSIVE SkipNotOpen(_, _)
\* "if position.status != 'OPEN': continue"
SkipNotOpen(todo, pos) ==
    IF todo = <<>> THEN <<>>
    ELSE IF pos[Head(todo)].status # "OPEN" THEN SkipNotOpen(Tail(todo), pos)
    ELSE todo

\* The for loop of _monitor_positions from its next item to the next await
MonitorContinue(todo, pos) ==
    LET rest == SkipNotOpen(todo, pos) IN
    IF rest = <<>>
    THEN [IdleMonitor EXCEPT !.pc = "loop"]
    ELSE [IdleMonitor EXCEPT !.pc = "price", !.todo = Tail(rest), !.cur = Head(rest)]

\* list(self.active_positions.items())
Snapshot(led) == [k \in 1..Len(led) |-> led[k].pid]

\* Top of the while loop of _monitor_positions
MonitorLoop(i) ==
    /\ mon[i].pc = "loop"
    /\ UNCHANGED <<control_state, trader_state, pipeline, buy_log, db, sell_log, running, paused, max_positions, now, trading_queue,
                   positions, active_positions, stats, tr>>
    /\ IF ~running
       THEN mon' = [mon EXCEPT ![i] = IdleMonitor]
       ELSE IF paused
       THEN UNCHANGED mon
       ELSE mon' = [mon EXCEPT ![i] = MonitorContinue(Snapshot(active_positions), positions)]

\* "if current_price:" then current_price and pnl_percent are refreshed
RefreshPrice(p, price) ==
    IF price # NoneVal
    THEN [p EXCEPT !.current_price = price,
                   !.pnl_percent = PnlPercent(price, p.entry_price)]
    ELSE p

\* From the return of get_token_price to the await of sell_token (or to the next item)
PriceReturn(i, price) ==
    /\ mon[i].pc = "price"
    /\ UNCHANGED <<control_state, trader_state, pipeline, buy_log, db, running, paused, max_positions, now, trading_queue,
                   active_positions, stats, tr>>
    /\ LET pid == mon[i].cur
           p1 == RefreshPrice(positions[pid], price)
           ex == CheckExitConditions(p1, now)
           pos1 == [positions EXCEPT ![pid] = p1]
       IN
       /\ positions' = pos1
       /\ IF ex.should_exit /\ p1.tokens_held # NoneVal
          THEN /\ mon' = [mon EXCEPT ![i] =
                        [IdleMonitor EXCEPT !.pc = "sell", !.todo = mon[i].todo, !.cur = pid,
                            !.reason = ex.exit_reason,
                            !.tokens_to_sell =
                               (p1.tokens_held * SellPercentage(ex.exit_reason)) \div 100]]
               /\ UNCHANGED sell_log
          ELSE /\ mon' = [mon EXCEPT ![i] = MonitorContinue(mon[i].todo, pos1)]
               \* tokens_held * sell_percentage raises TypeError on None, caught and logged
               /\ sell_log' = IF ex.should_exit THEN "error" ELSE sell_log

\* sell_token: the venue settles (or rejects) the trade; the TradeResult is on its way
SellSettle(i, venue) ==
    /\ mon[i].pc = "sell"
    /\ mon' = [mon EXCEPT ![i].pc = "sold",
                          ![i].result = SellResult(venue, mon[i].tokens_to_sell,
                                                   positions[mon[i].cur])]
    /\ UNCHANGED <<control_state, trader_state, pipeline, buy_log, db, sell_log, running, paused, max_positions, now, trading_queue, positions,
                   active_positions, stats, tr>>

\* The Position after a successful sell of sell_percentage pct
ApplySell(p, pct) ==
    IF pct = 100
    THEN [p EXCEPT !.status = "CLOSED"]
    ELSE [p EXCEPT !.status = "PARTIAL_CLOSE",
                   !.tokens_held = (@ * moonbag_percentage) \div 100,
                   !.amount_sol = (@ * moonbag_percentage) \div 100]

\* Variant: the TradeResult's success flag is not looked at
PositionAfterSellUnchecked(p, result, pct) == ApplySell(p, pct)

\* The Position when _execute_sell_order has handled the TradeResult: a failed result
\* is only logged, and a successful one without sol_received raises TypeError before
\* the position is touched
PositionAfterSell(p, result, pct) ==
    IF result.success /\ result.sol_received # NoneVal THEN ApplySell(p, pct) ELSE p

\* _execute_sell_order from the return of sell_token to its own return
SellOrder(i, n) ==
    /\ mon[i].pc = "sold"
    /\ UNCHANGED <<reply, threads, exited, trader_state, pipeline, buy_log, running, paused,
                   max_positions, now, trading_queue, tr>>
    /\ LET pid == mon[i].cur
           p == positions[pid]
           result == mon[i].result
           pct == SellPercentage(mon[i].reason)
           pnl_sol == result.sol_received - (p.amount_sol * pct) \div 100
       IN
       IF ~result.success
       \* only the failure is logged
       THEN /\ positions' = [positions EXCEPT ![pid] = PositionAfterSell(p, result, pct)]
            /\ UNCHANGED <<active_positions, stats, db, services>>
            /\ sell_log' = "failed"
            /\ mon' = [mon EXCEPT ![i] = MonitorContinue(mon[i].todo, positions)]
       ELSE IF result.sol_received = NoneVal
       \* sol_received - amount raises TypeError, caught by the handler
       THEN /\ positions' = [positions EXCEPT ![pid] = PositionAfterSell(p, result, pct)]
            /\ UNCHANGED <<active_positions, stats, db, services>>
            /\ sell_log' = "error"
            /\ mon' = [mon EXCEPT ![i] = MonitorContinue(mon[i].todo, positions)]
       ELSE LET pos1 == [positions EXCEPT ![pid] = PositionAfterSell(p, result, pct)] IN
            /\ positions' = pos1
            /\ mon' = [mon EXCEPT ![i] = MonitorContinue(mon[i].todo, pos1)]
            /\ IF pct = 100 /\ ~HasPosition(active_positions, p.token_address)
               \* del active_positions[...] raises KeyError, caught by the handler
               THEN /\ UNCHANGED <<active_positions, stats, db, services>>
                    /\ sell_log' = "error"
               ELSE /\ sell_log' = "executed"
                    \* the "Position Closed" or "Partially Closed" notification
                    /\ services' = [services EXCEPT !.notifier = n]
                    \* await self.db_manager.update_position(position)
                    /\ db' = [db EXCEPT !.positions = UpdatePosition(@, pos1[pid])]
                    /\ active_positions' =
                          IF pct = 100
                          THEN DelPosition(active_positions, p.token_address)
                          ELSE active_positions
                    /\ stats' = [stats EXCEPT !.positions_closed = @ + 1,
                                              !.total_pnl = @ + pnl_sol]

\* The sell with the notification manager left out of the state
SellReturn(i) == SellOrder(i, notifier)

\* The sell with its notification, sent at the default level
SellReturnNotifying(i) == SellOrder(i, Notify(notifier, "medium", wall))

----------------------------------------------------------------------------
----------------------------------------------------------------------------
(* Calls of the trader *)

CallFree == call.pc \in {"idle", "done"}

\* time passes between two calls
Tick(d) ==
    /\ CallFree
    /\ wall + d <= MaxWall
    /\ wall' = wall + d
    /\ UNCHANGED <<price_cache, call>>
    /\ UNCHANGED <<control_state, pipeline, buy_log, db, sell_log, running, paused, max_positions, now,
                   trading_queue, positions, active_positions, stats, tr, mon>>

\* get_token_price(a), from the call to its return
PriceLookup(a, answer) ==
    /\ CallFree
    /\ LET r == GetTokenPrice(price_cache, a, wall, answer) IN
       /\ price_cache' = r.cache
       /\ call' = [IdleCall EXCEPT !.op = "price", !.pc = "done", !.token = a,
                                   !.queried = r.queried,
                                   !.answer = IF r.queried THEN answer ELSE NoneVal,
                                   !.price = r.price]
    /\ UNCHANGED wall
    /\ UNCHANGED <<control_state, pipeline, buy_log, db, sell_log, running, paused, max_positions, now,
                   trading_queue, positions, active_positions, stats, tr, mon>>

\* buy_token / sell_token from the call to the await of the execution: the quote and
\* the balance check (buy: quote, then balance; sell: balance, then quote)
TradeQuote(op, a, amount, jupiter_quote, answer, funded) ==
    /\ CallFree
    /\ LET q == GetQuote(price_cache, a, wall, jupiter_quote, answer)
           started == [IdleCall EXCEPT !.op = op, !.token = a, !.amount = amount]
           quoted == [started EXCEPT !.primary = jupiter_quote, !.quote = q.quote,
                                     !.queried = q.queried,
                                     !.answer = IF q.queried THEN answer ELSE NoneVal]
       IN
       IF op = "sell" /\ ~funded
       THEN /\ call' = [started EXCEPT !.pc = "done"]
            /\ UNCHANGED price_cache
       ELSE /\ price_cache' = q.cache
            /\ call' = IF q.quote.dex = "none" \/ ~funded
                       THEN [quoted EXCEPT !.pc = "done"]
                       ELSE [quoted EXCEPT !.pc = "trade"]
    /\ UNCHANGED wall
    /\ UNCHANGED <<control_state, pipeline, buy_log, db, sell_log, running, paused, max_positions, now,
                   trading_queue, positions, active_positions, stats, tr, mon>>

\* _execute_buy_trade / _execute_sell_trade up to the first poll (Jupiter) or to the
\* return (Raydium); sent: the swap request was accepted and the transaction sent
ExecuteTrade(sent) ==
    /\ call.pc = "trade"
    /\ IF call.quote.dex = "raydium"
       THEN call' = [call EXCEPT !.pc = "done", !.executed_on = "raydium",
                                 !.result = RaydiumSwap(call.op, call.amount, call.quote.price)]
       ELSE call' = IF sent
                    THEN [call EXCEPT !.pc = "confirm", !.executed_on = "jupiter"]
                    ELSE [call EXCEPT !.pc = "done", !.executed_on = "jupiter"]
    /\ UNCHANGED <<wall, price_cache>>
    /\ UNCHANGED <<control_state, pipeline, buy_log, db, sell_log, running, paused, max_positions, now,
                   trading_queue, positions, active_positions, stats, tr, mon>>

\* One pass of the while loop of _wait_for_confirmation, or its end by timeout, and
\* then the rest of _execute_jupiter_swap
Poll(status) ==
    /\ call.pc = "confirm"
    /\ LET outcome == IF call.waited < confirmation_timeout
                      THEN PollOutcome(status) ELSE "false"
       IN
       IF call.waited < confirmation_timeout /\ outcome = ""
       THEN call' = [call EXCEPT !.waited = @ + confirmation_interval]
       ELSE call' = [call EXCEPT !.pc = "done", !.confirmed = outcome,
                                 !.result = JupiterSwapResult(call.quote.price, outcome)]
    /\ UNCHANGED <<wall, price_cache>>
    /\ UNCHANGED <<control_state, pipeline, buy_log, db, sell_log, running, paused, max_positions, now,
                   trading_queue, positions, active_positions, stats, tr, mon>>

\* A (re)start that comes after every worker of the previous start has left its loop
ApiStartAfterExit == LiveInsts = {} /\ ApiStart

Workers(buys, lookups, venues) ==
    \/ \E i \in Insts : TradingLoop(i)
    \/ \E i \in Insts : \E r \in buys : BuyReturn(i, r)
    \/ \E i \in Insts : MonitorLoop(i)
    \/ \E i \in Insts : \E price \in lookups : PriceReturn(i, price)
    \/ \E i \in Insts : \E v \in venues : SellSettle(i, v)
    \/ \E i \in Insts : SellReturn(i)

\* One generation of workers at a time; every buy the venue accepts is filled
Next ==
    \/ ApiStartAfterExit
    \/ ApiStop
    \/ ApiPause
    \/ ApiResume
    \/ \E a \in Addrs : \E recommendation \in Recommendations : \E filter_passed \in BOOLEAN :
          QueueAnalysis(a, recommendation, filter_passed)
    \/ \E d \in ClockSteps : AdvanceClock(d)
    \/ Workers(BuyResults(BuySize) \ {FailedResult}, TickPrices \cup {NoneVal}, Venues)

Spec == Init /\ [][Next]_vars

\* Stop and start in quick succession: the workers of the previous start are still
\* asleep or awaiting a venue when running is set again.  Here the primary venue is
\* down and the secondary venue and the price lookups answer.
NextRestart ==
    \/ ApiStart
    \/ ApiStop
    \/ \E a \in Addrs : \E recommendation \in Recommendations : \E filter_passed \in BOOLEAN :
          QueueAnalysis(a, recommendation, filter_passed)
    \/ Workers({RaydiumBuy(BuySize, p) : p \in EntryPrices}, RestartPrices, {"raydium"})

InitRestart == Init /\ max_positions = 1

SpecRestart == InitRestart /\ [][NextRestart]_vars

\* The control surface alone: requests in any order, the threads they start, and
\* the idle workers of each start
NextControl ==
    \/ \E action \in ControlActions \cup {"restart"} : ApiControl(action)
    \/ \E outcome \in StartOutcomes : StartBot(outcome)
    \/ \E i \in Insts : TradingLoop(i)
    \/ \E i \in Insts : MonitorLoop(i)

SpecControl == Init /\ [][NextControl]_vars

\* A started bot that is stopped, by the control action or by a signal, and not
\* started again.  The event loop runs every coroutine that is ready, and every call
\* of a venue returns or times out: each step of a worker is weakly fair.
ShutdownPrices == {50, 51}

\* every buy that is queued or with the venue can still be given a Position
RoomForBuy ==
    Len(positions) + Len(trading_queue) + Cardinality({i \in Insts : tr[i].pc = "buy"}) < MaxPids

\* _process_analysis queues a BUY analysis of address a
QueueBuy(a) == RoomForBuy /\ QueueAnalysis(a, "BUY", TRUE)

NextShutdown ==
    \/ ApiStartAfterExit
    \/ ApiStop
    \/ ShutdownSignal
    \/ \E a \in Addrs : QueueBuy(a)
    \/ Workers({RaydiumBuy(BuySize, p) : p \in EntryPrices}, ShutdownPrices, {"raydium"})

WorkersFair ==
    \A i \in Insts :
       /\ WF_vars(TradingLoop(i))
       /\ WF_vars(\E r \in {RaydiumBuy(BuySize, p) : p \in EntryPrices} : BuyReturn(i, r))
       /\ WF_vars(MonitorLoop(i))
       /\ WF_vars(\E price \in ShutdownPrices : PriceReturn(i, price))
       /\ WF_vars(SellSettle(i, "raydium"))
       /\ WF_vars(SellReturn(i))

SpecShutdown == Init /\ [][NextShutdown]_vars /\ WorkersFair

\* A bot that is stopped and whose process is run again over the same database
NextRecover ==
    \/ ApiStartAfterExit
    \/ ApiStop
    \/ ShutdownSignal
    \/ ProcessRestart
    \/ \E a \in Addrs : QueueBuy(a)
    \/ Workers({RaydiumBuy(BuySize, p) : p \in EntryPrices}, ShutdownPrices, {"raydium"})

SpecRecover == Init /\ [][NextRecover]_vars

\* The whole pipeline of a running bot with providers and venues that fail at will:
\* assessments whose providers fail, buys the venue rejects, lookups without a price
\* and sells the venue rejects.  The bot is started once and neither stopped nor
\* paused; the event loop runs every worker that is ready.
ContainPrices == {50, 51, NoneVal}

ContainBuys == {FailedResult} \cup {RaydiumBuy(BuySize, p) : p \in EntryPrices}

ContainVenues == {"raydium", "failed"}

\* what the safety analyzer, the market data provider and the predictor return:
\* all three fail, or all three answer well
ContainAnswers ==
    {<<0, EmptyMarketData, FailedPrediction>>, <<100, GoodMarketData, Prediction(100)>>}

NextContain ==
    \/ ApiStartAfterExit
    \/ \E a \in Addrs : Signal(a, 90)
    \/ ProcessDiscoveries
    \/ \E r \in ContainAnswers : ProcessAnalysis(r[1], r[2], r[3])
    \/ Workers(ContainBuys, ContainPrices, ContainVenues)

ContainFair ==
    /\ WF_vars(ProcessDiscoveries)
    /\ WF_vars(\E r \in ContainAnswers : ProcessAnalysis(r[1], r[2], r[3]))
    /\ \A i \in Insts :
          /\ WF_vars(TradingLoop(i))
          /\ WF_vars(\E r \in ContainBuys : BuyReturn(i, r))
          /\ WF_vars(MonitorLoop(i))
          /\ WF_vars(\E price \in ContainPrices : PriceReturn(i, price))
          /\ WF_vars(\E v \in ContainVenues : SellSettle(i, v))
          /\ WF_vars(SellReturn(i))

SpecContain == Init /\ [][NextContain]_vars /\ ContainFair

\* Queues that hold more than one item: signals of both addresses that all pass the
\* gates, a venue that may reject, and pause and resume through the control route
FifoRoom == MaxQueue + 1

NextFifo ==
    \/ \E action \in {"start", "pause", "resume"} : ApiControl(action)
    \/ StartBot("ok")
    \/ \E a \in Addrs : SignalUpTo(FifoRoom, a, 90)
    \/ ProcessDiscoveriesUpTo(FifoRoom)
    \/ ProcessAnalysisUpTo(FifoRoom, 100, GoodMarketData, Prediction(100))
    \/ \E i \in Insts : TradingLoop(i)
    \/ \E i \in Insts : \E r \in ContainBuys : BuyReturn(i, r)

FifoFair ==
    /\ WF_vars(ProcessDiscoveriesUpTo(FifoRoom))
    /\ WF_vars(ProcessAnalysisUpTo(FifoRoom, 100, GoodMarketData, Prediction(100)))
    /\ \A i \in Insts :
          /\ WF_vars(TradingLoop(i))
          /\ WF_vars(\E r \in ContainBuys : BuyReturn(i, r))

SpecFifo == Init /\ [][NextFifo]_vars /\ FifoFair

\* The trader alone: price lookups, buys and sells of one token, one call at a time
WallSteps == {1, 29}

TraderPrices == {100, 200}

NextTrader ==
    \/ \E d \in WallSteps : Tick(d)
    \/ \E answer \in TraderPrices \cup {NoneVal} : PriceLookup("A", answer)
    \/ \E op \in {"buy", "sell"} : \E jupiter_quote \in {100, NoneVal} :
       \E answer \in TraderPrices \cup {NoneVal} : \E funded \in BOOLEAN :
          TradeQuote(op, "A", BuySize, jupiter_quote, answer, funded)
    \/ \E sent \in BOOLEAN : ExecuteTrade(sent)
    \/ \E status \in Statuses : Poll(status)

SpecTrader == Init /\ [][NextTrader]_vars

\* The trading worker alone, with a venue that also rejects buys
NextBuy ==
    \/ ApiStartAfterExit
    \/ ApiStop
    \/ ApiPause
    \/ ApiResume
    \/ \E a \in Addrs : \E recommendation \in Recommendations : \E filter_passed \in BOOLEAN :
          QueueAnalysis(a, recommendation, filter_passed)
    \/ \E i \in Insts : TradingLoop(i)
    \/ \E i \in Insts : \E r \in BuyResults(BuySize) : BuyReturn(i, r)

SpecBuy == Init /\ [][NextBuy]_vars

\* The assessment of discoveries of one address, over every provider answer
NextAnalyze ==
    \/ ApiStartAfterExit
    \/ \E c \in Confidences : Signal("A", c)
    \/ ProcessDiscoveries
    \/ \E safety_score \in SafetyReturns : \E md \in MarketReturns : \E ai \in AiReturns :
          ProcessAnalysis(safety_score, md, ai)

SpecAnalyze == Init /\ [][NextAnalyze]_vars

\* Configuration updates while the trading worker runs: requests that set the
\* position limit or the safety floor to a valid value, to an invalid one, or
\* to a text that is no number
ConfigRequests ==
    [max_positions : {Absent, Unparsable, Given(0), Given(1), Given(2)},
     min_safety_score : {Absent, Unparsable, Given(50), Given(101)}]

NextConfig ==
    \/ ApiStartAfterExit
    \/ \E req \in ConfigRequests : ApiConfig(req)
    \/ \E a \in Addrs : QueueAnalysis(a, "BUY", TRUE)
    \/ \E i \in Insts : TradingLoop(i)
    \/ \E i \in Insts : \E p \in EntryPrices : BuyReturn(i, RaydiumBuy(BuySize, p))

SpecConfig == Init /\ [][NextConfig]_vars

\* Trading with the notifications followed: the primary venue is down, the
\* secondary venue fills every buy and every sell, and the clock of the
\* notification manager runs
NoticePrices == {50, 1000}

NextNotice ==
    \/ ApiStartAfterExit
    \/ \E a \in Addrs : QueueAnalysis(a, "BUY", TRUE)
    \/ \E d \in NotifySteps : NotifierTick(d)
    \/ \E i \in Insts : TradingLoop(i)
    \/ \E i \in Insts : \E p \in EntryPrices : BuyReturnNotifying(i, RaydiumBuy(BuySize, p))
    \/ \E i \in Insts : MonitorLoop(i)
    \/ \E i \in Insts : \E price \in NoticePrices : PriceReturn(i, price)
    \/ \E i \in Insts : SellSettle(i, "raydium")
    \/ \E i \in Insts : SellReturnNotifying(i)

SpecNotice == Init /\ [][NextNotice]_vars

\* Discovery and assessment with a database that may refuse a row
NextPersist ==
    \/ ApiStartAfterExit
    \/ \E a \in Addrs : \E c \in {30, 90} : Signal(a, c)
    \/ \E saved \in BOOLEAN : ProcessDiscoveriesSaving(MaxQueue, saved)
    \/ ProcessAnalysis(90, GoodMarketData, FailedPrediction)

SpecPersist == Init /\ [][NextPersist]_vars

\* The rate limiter of the token analyzer under concurrent callers (the tasks
\* of get_comprehensive_analysis of several tokens), a minute and a half of
\* clock
LimiterSteps == {30}

NextLimiter ==
    \/ \E c \in Callers : \E api \in Apis : RateLimit(c, api)
    \/ \E c \in Callers : RateLimitWake(c)
    \/ \E d \in LimiterSteps : LimiterTick(d)

LimiterFair ==
    /\ \A c \in Callers : WF_vars(RateLimitWake(c))
    /\ WF_vars(\E d \in LimiterSteps : LimiterTick(d))

SpecLimiter == Init /\ [][NextLimiter]_vars /\ LimiterFair

\* The notification manager alone: callers at every level, the webhook channel,
\* five minutes of clock in steps of one minute
NextNotifier ==
    \/ \E level \in Levels : SendNotification(level)
    \/ \E k \in 1..MaxNotifications : ChannelReturn(k)
    \/ \E d \in NotifySteps : NotifierTick(d)

SpecNotifier == Init /\ [][NextNotifier]_vars

\* Discovery and dedup over a day; the signals are below the confidence gate, so
\* the analysis worker only takes them off its queue
PipelineClockSteps == {1, 23}

NextPipeline ==
    \/ ApiStartAfterExit
    \/ ApiStop
    \/ \E d \in PipelineClockSteps : AdvanceClock(d)
    \/ \E a \in Addrs : Signal(a, 30)
    \/ ProcessDiscoveries
    \/ ProcessAnalysis(0, EmptyMarketData, FailedPrediction)

SpecPipeline == Init /\ [][NextPipeline]_vars

----------------------------------------------------------------------------
(* Claims *)

Live(p) == p.status \in {"OPEN", "PARTIAL_CLOSE"}

Pids == 1..Len(positions)

\* C1: under any interleaving of the trading worker, the monitor and the control
\* actions, the ledger holds at most one live Position per asset address, and a
\* successful buy never replaces a live Position the ledger holds for that address.
C1_OneLivePositionPerAddress ==
    [][ /\ \A k1, k2 \in 1..Len(active_positions') :
              active_positions'[k1].addr = active_positions'[k2].addr => k1 = k2
        /\ \A k \in 1..Len(active_positions) :
              LET e == active_positions[k] IN
              Live(positions[e.pid]) =>
                 \A k2 \in 1..Len(active_positions') :
                    active_positions'[k2].addr = e.addr => active_positions'[k2].pid = e.pid
      ]_vars

\* C2: the number of Positions with status OPEN or PARTIAL_CLOSE in the ledger is at
\* most max_positions in every reachable state.
C2_WithinMaxPositions ==
    Cardinality({k \in 1..Len(active_positions) : Live(positions[active_positions[k].pid])})
        <= max_positions

\* C3: in the buy path the checks and the insert form one critical section: while a
\* trading worker is between its checks and its insert, no step changes the ledger.
C3_CheckThenInsertAtomic ==
    [][ \A i \in Insts :
           (tr[i].pc = "buy" /\ tr'[i].pc = "buy") => active_positions' = active_positions
      ]_vars

\* C4: a Position's status changes only along OPEN -> PARTIAL_CLOSE,
\* PARTIAL_CLOSE -> CLOSED and OPEN -> CLOSED, a CLOSED Position is not in the ledger,
\* and every Position in the ledger is OPEN or PARTIAL_CLOSE.
C4_StatusMachine ==
    [][ /\ \A pid \in Pids :
              \/ positions'[pid].status = positions[pid].status
              \/ <<positions[pid].status, positions'[pid].status>> \in
                    {<<"OPEN", "PARTIAL_CLOSE">>, <<"PARTIAL_CLOSE", "CLOSED">>,
                     <<"OPEN", "CLOSED">>}
        /\ \A k \in 1..Len(active_positions') :
              Live(positions'[active_positions'[k].pid])
      ]_vars

\* The positions a monitor still has to look at in its current pass
WorkList(m) ==
    {m.todo[k] : k \in 1..Len(m.todo)}
        \cup (IF m.pc \in {"price", "sell", "sold"} THEN {m.cur} ELSE {})

\* C5: on every monitor tick every position with status OPEN or PARTIAL_CLOSE has its
\* price refreshed and its exit conditions evaluated (so that a moonbag below its stop
\* or past the hold limit is closed): a monitor takes a position off its work list
\* without a price lookup only if the position is no longer live.
C5_EveryLivePositionEvaluated ==
    [][ \A i \in Insts :
           LET before == IF mon[i].pc = "loop"
                         THEN (IF running /\ ~paused
                               THEN LedgerPids(active_positions)
                               ELSE {})
                         ELSE {mon[i].todo[k] : k \in 1..Len(mon[i].todo)}
           IN mon'[i] # mon[i] =>
                 \A pid \in before \ WorkList(mon'[i]) : ~Live(positions'[pid])
      ]_vars

\* The exit decision as the rules state it, for a position at price cp with entry
\* price e and age in hours: "" stands for no exit
ExpectedExit(e, cp, age) ==
    IF cp * 1 >= e * take_profit_multiplier THEN "TAKE_PROFIT"
    ELSE IF cp * 100 <= e * (100 - stop_loss_percentage) THEN "STOP_LOSS"
    ELSE IF age >= max_hold_hours THEN "TIME_LIMIT"
    ELSE ""

\* C6: a position bought at entry price e has stop-loss price e*(1 - stop_loss_pct) and
\* take-profit price e*take_profit_multiplier, and the monitor's exit decision is, in
\* this order: TAKE_PROFIT when the current price is at or above the take-profit price;
\* otherwise STOP_LOSS when it is at or below the stop-loss price; otherwise TIME_LIMIT
\* when the position has been held for max_hold_hours or longer; otherwise no exit.
C6_ExitDecision ==
    [][ /\ \A pid \in 1..Len(positions') :
              /\ positions'[pid].stop_loss_price * 100 =
                    positions'[pid].entry_price * (100 - stop_loss_percentage)
              /\ positions'[pid].take_profit_price =
                    positions'[pid].entry_price * take_profit_multiplier
        /\ \A i \in Insts :
              (mon[i].pc = "price" /\ mon'[i] # mon[i]) =>
                 LET p == positions'[mon[i].cur]
                     d == ExpectedExit(p.entry_price, p.current_price, now - p.entry_timestamp)
                 IN /\ mon'[i].pc = "sell" => (d # "" /\ mon'[i].reason = d /\ mon'[i].cur = mon[i].cur)
                    /\ (d # "" /\ p.tokens_held # NoneVal) => mon'[i].pc = "sell"
      ]_vars

\* C6 witness: the monitor has decided STOP_LOSS for a position bought at 1.00 (stop
\* 0.50, take-profit 10.00) whose price fell to 0.50
C6_Witness ==
    \E i \in Insts :
       /\ mon[i].pc = "sell"
       /\ mon[i].reason = "STOP_LOSS"
       /\ positions[mon[i].cur].entry_price = 100
       /\ positions[mon[i].cur].stop_loss_price = 50
       /\ positions[mon[i].cur].take_profit_price = 1000
       /\ positions[mon[i].cur].current_price = 50

\* C7: a successful exit with reason TAKE_PROFIT sells 1 - moonbag_pct of the tokens
\* held and leaves the position in the ledger as PARTIAL_CLOSE with tokens_held and
\* amount_sol multiplied by moonbag_pct; a successful exit for any other reason sells
\* all of it, sets it CLOSED and removes it from the ledger.
C7_SuccessfulExitApplied ==
    [][ \A i \in Insts :
           (mon[i].pc = "sold" /\ mon'[i].pc # "sold" /\ mon[i].result.success) =>
              LET pid == mon[i].cur
                  p == positions[pid]
                  q == positions'[pid]
              IN IF mon[i].reason = "TAKE_PROFIT"
                 THEN /\ mon[i].tokens_to_sell * 100 = p.tokens_held * (100 - moonbag_percentage)
                      /\ q.status = "PARTIAL_CLOSE"
                      /\ q.tokens_held * 100 = p.tokens_held * moonbag_percentage
                      /\ q.amount_sol * 100 = p.amount_sol * moonbag_percentage
                      /\ pid \in LedgerPids(active_positions')
                 ELSE /\ mon[i].tokens_to_sell = p.tokens_held
                      /\ q.status = "CLOSED"
                      /\ pid \notin LedgerPids(active_positions')
      ]_vars

\* C8: when the sell transaction of an exit fails, the position keeps its status, its
\* tokens_held and its amount_sol and stays in the ledger, and the exit is attempted
\* again on the next monitor tick if the exit condition still holds: the monitor goes
\* on with its pass, no pass leaves out an OPEN position of the ledger, and a lookup
\* that finds the exit condition of a position with known holdings starts the sell.
C8_FailedSellKeepsPosition ==
    [][ \A i \in Insts :
           /\ (mon[i].pc = "sold" /\ mon'[i].pc # "sold" /\ ~mon[i].result.success) =>
                 /\ positions' = positions
                 /\ active_positions' = active_positions
                 /\ stats' = stats
                 /\ mon'[i].pc \in {"loop", "price"}
           /\ (mon[i].pc = "loop" /\ running /\ ~paused /\ active_positions' = active_positions) =>
                 \A pid \in LedgerPids(active_positions) :
                    positions[pid].status = "OPEN" =>
                       (mon[i].pc = "loop" /\ mon'[i] = mon[i]) \/ pid \in WorkList(mon'[i])
           /\ \A k \in 1..Len(mon[i].todo) :
                 (positions'[mon[i].todo[k]].status = "OPEN" /\ mon'[i].pc # "none") =>
                    mon[i].todo[k] \in WorkList(mon'[i])
           /\ (mon[i].pc = "price" /\ mon'[i] # mon[i]) =>
                 LET p == positions'[mon[i].cur] IN
                 (ExpectedExit(p.entry_price, p.current_price, now - p.entry_timestamp) # ""
                     /\ p.tokens_held # NoneVal) =>
                    (mon'[i].pc = "sell" /\ mon'[i].cur = mon[i].cur)
      ]_vars

\* C8 witness: the venue rejected the sell, nothing was counted as closed, the
\* position is still OPEN in the ledger, and the monitor has started the sell again
C8_Witness ==
    \E i \in Insts :
       /\ sell_log = "failed"
       /\ stats.positions_closed = 0
       /\ mon[i].pc = "sell"
       /\ positions[mon[i].cur].status = "OPEN"
       /\ mon[i].cur \in LedgerPids(active_positions)

\* C9: once the venue sell of an exit succeeds the position leaves OPEN, and a
\* position never leaves the ledger without a successful sell of it.
C9_SellSucceededLeavesOpen ==
    [][ /\ \A i \in Insts :
              (mon[i].pc = "sold" /\ mon'[i].pc # "sold" /\ mon[i].result.success) =>
                 positions'[mon[i].cur].status # "OPEN"
        /\ \A pid \in LedgerPids(active_positions) \ LedgerPids(active_positions') :
              \E i \in Insts :
                 /\ mon[i].pc = "sold" /\ mon'[i].pc # "sold"
                 /\ mon[i].cur = pid
                 /\ mon[i].result.success
      ]_vars

\* C10: while a sell is in flight for a Position no other worker starts a second sell
\* for it and no price or PnL update is applied to it.
C10_ExitIsExclusiveLease ==
    [][ \A i \in Insts :
           mon[i].pc \in {"sell", "sold"} =>
              LET pid == mon[i].cur IN
              /\ positions'[pid].current_price = positions[pid].current_price
              /\ positions'[pid].pnl_percent = positions[pid].pnl_percent
              /\ \A j \in Insts \ {i} :
                    ~(mon[j].pc # "sell" /\ mon'[j].pc = "sell" /\ mon'[j].cur = pid)
      ]_vars

\* the assessments the analysis worker has stored for which predict_success was called
\* (they passed the safety gate and the hard market filters)
ScoredAddrs == {a \in Addrs : analyzed_tokens[a].ai_prediction.called}

\* 0.4*(safety_score/100) + 0.4*ai_probability + 0.2*market_condition_score, in 1/10000000
WeightedScore(an) ==
    40000 * an.safety_score + 40000 * an.ai_prediction.success_probability
    + 200 * CalculateMarketScore(an.market_data)

\* C11: for every assessment that passes the safety and hard market filters the
\* combined score the recommendation is derived from equals 0.4*(safety_score/100)
\* + 0.4*ai_probability + 0.2*market_condition_score, and safety_score 90,
\* ai_probability 0.9, market_condition_score 0.8 give 0.88 and BUY.
C11_CombinedScoreWeights ==
    \A a \in ScoredAddrs :
        LET an == analyzed_tokens[a] IN
        /\ CombinedScore(an.safety_score, an.market_data, an.ai_prediction) = WeightedScore(an)
        /\ (/\ an.safety_score = 90
            /\ an.ai_prediction.success_probability = 90
            /\ CalculateMarketScore(an.market_data) = 8000)
           => /\ WeightedScore(an) = 8800000
              /\ an.recommendation = "BUY"

\* C12: the combined score lies in [0,1], and the recommendation is BUY exactly when
\* the combined score is at least 0.75, MONITOR exactly when it is at least 0.60 and
\* below 0.75, and PASS otherwise.
C12_RecommendationThresholds ==
    \A a \in ScoredAddrs :
        LET an == analyzed_tokens[a] IN
        /\ WeightedScore(an) \in 0..10000000
        /\ an.recommendation = "BUY" <=> WeightedScore(an) >= 7500000
        /\ an.recommendation = "MONITOR" <=>
              (WeightedScore(an) >= 6000000 /\ WeightedScore(an) < 7500000)
        /\ an.recommendation = "PASS" <=> WeightedScore(an) < 6000000

\* a hard filter fails on market data md
HardFilterFails(md) ==
    \/ md.market_cap < min_market_cap
    \/ md.market_cap > max_market_cap
    \/ md.liquidity < min_liquidity
    \/ md.volume_24h < min_volume_24h
    \/ (require_locked_liquidity /\ ~md.liquidity_locked)
    \/ (require_disabled_mint /\ ~md.mint_disabled)

\* the analysis worker stores an assessment in this step
Assessed == stats'.tokens_analyzed = stats.tokens_analyzed + 1

\* C13: a signal whose safety_score is below min_safety_score, or whose market data
\* fails a hard filter, gets recommendation PASS with filter_passed false; the AI
\* scorer is not called for it and nothing is put on the trading queue.
C13_GatesForcePass ==
    [][Assessed =>
          LET an == analyzed_tokens'[Head(analysis_queue).contract_address] IN
          (an.safety_score < min_safety_score \/ HardFilterFails(an.market_data))
             => /\ an.recommendation = "PASS"
                /\ ~an.filter_passed
                /\ ~an.ai_prediction.called
                /\ trading_queue' = trading_queue]_vars

\* C13 witness: a token with safety score 100 whose mint authority is still enabled
\* has been assessed PASS without a prediction, and nothing was queued for trading
C13_Witness ==
    /\ analysis_queue = <<>>
    /\ trading_queue = <<>>
    /\ LET an == analyzed_tokens["A"] IN
       /\ an.recommendation = "PASS"
       /\ ~an.ai_prediction.called
       /\ an.safety_score = 100
       /\ an.market_data.present
       /\ ~an.market_data.mint_disabled

\* C14: when an upstream source fails during an assessment (the safety fetch, which
\* then yields 0; the market-data fetch, which then yields no data; the prediction,
\* which then yields its error default) the assessment stored for the signal has
\* recommendation PASS.
C14_UpstreamFailureGivesPass ==
    \A a \in Addrs :
        LET an == analyzed_tokens[a] IN
        (/\ an.safety_score # NoneVal
         /\ \/ an.safety_score = 0
            \/ ~an.market_data.present
            \/ an.ai_prediction.error)
        => an.recommendation = "PASS"

\* the discovery worker takes a signal off its queue in this step
AtDedup == discovery_queue # <<>> /\ discovery_queue' = Tail(discovery_queue)

\* seconds between the timestamp of the signal last admitted for the address of
\* signal d and the present
SinceAdmitted(d) == (now - discovered_tokens[d.contract_address].timestamp) * 3600

C16_RepeatAdmittedAfterWindow ==
    [][AtDedup =>
          LET d == Head(discovery_queue) IN
          (/\ discovered_tokens[d.contract_address] # NoDiscovery
           /\ SinceAdmitted(d) >= dedup_window)
          => /\ analysis_queue' = Append(analysis_queue, d)
             /\ discovered_tokens'[d.contract_address] = d]_vars

\* the analysis worker takes a signal off its queue in this step
AtAnalysis == analysis_queue # <<>> /\ analysis_queue' = Tail(analysis_queue)

BuyInvoked(i) == tr[i].pc = "loop" /\ tr'[i].pc = "buy"

\* the ledger holds a position with status OPEN or PARTIAL_CLOSE for address a
LedgerHoldsLive(a) ==
    \E k \in 1..Len(active_positions) :
        active_positions[k].addr = a /\ Live(positions[active_positions[k].pid])

\* the conditions under which the analysis at the head of the trading queue is bought
MayBuy ==
    /\ ~paused
    /\ Head(trading_queue).recommendation = "BUY"
    /\ Len(active_positions) < max_positions
    /\ ~LedgerHoldsLive(Head(trading_queue).contract_address)

C19_FailedBuyCreatesNothing ==
    [][\A i \in Insts :
          BuyReturn(i, FailedResult)
             => /\ positions' = positions
                /\ active_positions' = active_positions
                /\ stats' = stats
                /\ db' = db
                /\ ~HasPosition(active_positions', tr[i].addr)
                /\ tr'[i] = [pc |-> "loop", addr |-> ""]]_vars

\* C19 witness: the last failed buy was for A, and the one position opened since is
\* a position for A
C19_Witness ==
    /\ buy_log = "A"
    /\ stats.positions_opened = 1
    /\ Len(db.positions) = 1
    /\ LedgerHoldsLive("A")

\* monitor i calls the venue's sell in this step
SellInvoked(i) == mon[i].pc # "sell" /\ mon'[i].pc = "sell"

\* C20: from the moment the paused flag is set until it is cleared the trading
\* worker starts no buy and the position monitor starts no sell, the remaining
\* positions of a tick begun before the pause included.
C20_PausedStartsNoTrade ==
    [][paused => \A i \in Insts : ~BuyInvoked(i) /\ ~SellInvoked(i)]_vars

\* C21: a submitted trade whose confirmation polling ends as failed or timed out
\* yields a TradeResult with success = false; success = true is returned only for a
\* trade classified as confirmed.
C21_UnconfirmedTradeFails ==
    (call.pc = "done" /\ call.op \in {"buy", "sell"} /\ call.executed_on = "jupiter")
       => (call.result.success <=> call.confirmed = "true")

\* a buy or sell that has asked for a quote
Quoted == call.op \in {"buy", "sell"} /\ call.quote.asked # {}

LookupReturns ==
    /\ call'.op = "price"
    /\ wall' = wall
    /\ call' # call \/ price_cache' # price_cache

\* the cache holds a price for token a that is less than 30 seconds old
YoungEntry(a) ==
    /\ price_cache[a].timestamp # NoneVal
    /\ wall - price_cache[a].timestamp < 30

\* C30: a price lookup returns a cached price only when the entry of the asset is
\* younger than 30 seconds; on a miss or a stale entry the venue is asked; when that
\* query fails the lookup returns no price, not the stale one, and the cache stays
\* as it was.
C30_PriceCache ==
    [][LookupReturns =>
          LET a == call'.token IN
          /\ ~call'.queried => (YoungEntry(a) /\ call'.price = price_cache[a].price)
          /\ ~YoungEntry(a) => call'.queried
          /\ (call'.queried /\ call'.answer = NoneVal)
                => (call'.price = NoneVal /\ price_cache' = price_cache)
          /\ (call'.queried /\ call'.answer # NoneVal) => call'.price = call'.answer]_vars

\* C30 witness: the price cached at second 0 is 30 seconds old, the venue was asked
\* and did not answer, and the lookup returned no price and kept the entry
C30_Witness ==
    /\ wall = 30
    /\ price_cache["A"] = [price |-> 100, timestamp |-> 0]
    /\ call.op = "price" /\ call.pc = "done"
    /\ call.queried /\ call.answer = NoneVal
    /\ call.price = NoneVal

\* a step in which monitor i gets the price of its current position and decides
PriceDecided(i) == mon[i].pc = "price" /\ mon'[i] # mon[i]

\* the position monitor i decided about has been held for max_hold_hours or longer
HeldTooLong(i) == now - positions'[mon[i].cur].entry_timestamp >= max_hold_hours

FlagsAfter(action, r, p) ==
    LET c == Control(action, r, p) IN
    [running |-> IF c.spawn THEN TRUE ELSE c.running, paused |-> c.paused]

\* the transition of each control action, on the flags after the step
Performed(action) ==
    IF action = "start" THEN threads' = threads + 1
    ELSE IF action = "stop" THEN ~running'
    ELSE IF action = "pause" THEN paused'
    ELSE ~paused'

\* C24: in every combination of running and paused each of start, stop, pause and
\* resume either performs its transition and answers success (for start: the thread it
\* starts sets running), or leaves both flags as they are and answers failure with a
\* non-empty reason; stop leaves paused alone, pause and resume leave running alone;
\* and the same action applied twice leaves the flags as after applying it once.
C24_ControlActions ==
    [][ /\ \A action \in ControlActions :
              ApiControl(action) =>
                 /\ \/ reply'.success /\ Performed(action)
                    \/ /\ ~reply'.success /\ reply'.reason # ""
                       /\ running' = running /\ paused' = paused
                 /\ action = "stop" => paused' = paused
                 /\ action \in {"pause", "resume"} => running' = running
                 /\ LET once == FlagsAfter(action, running, paused) IN
                    FlagsAfter(action, once.running, once.paused) = once
        /\ \A outcome \in StartOutcomes : StartBot(outcome) => running'
      ]_vars

\* C25: once running is cleared and stays cleared every worker leaves its loop; a buy
\* or sell that is with the venue when the stop comes (from the control action or
\* from a shutdown signal) runs to its return, where its outcome is written to the
\* ledger and the database; and a worker that has read running = false at the top of
\* its loop starts no buy and no sell.
C25_StopDrainsWorkers ==
    /\ (<>[](~running)) => <>[](LiveInsts = {})
    /\ [][\A i \in Insts :
             /\ (tr[i].pc = "buy" /\ tr'[i] # tr[i])
                   => \E r \in BuyResults(BuySize) : BuyReturn(i, r)
             /\ (mon[i].pc = "sell" /\ mon'[i] # mon[i]) => \E v \in Venues : SellSettle(i, v)
             /\ (mon[i].pc = "sold" /\ mon'[i] # mon[i]) => SellReturn(i)
             /\ (~running /\ tr[i].pc = "loop") => tr'[i].pc # "buy"
             /\ (~running /\ mon[i].pc = "loop") => mon'[i].pc \notin {"price", "sell"}]_vars

\* the row saved last for address a
LastRow(rows, a) ==
    rows[CHOOSE k \in 1..Len(rows) :
            /\ rows[k].token_address = a
            /\ \A j \in 1..Len(rows) : rows[j].token_address = a => j <= k]

\* a persisted row and a Position agree on the mirrored fields
RowAgrees(row, p) ==
    /\ row.status = p.status
    /\ row.tokens_held = p.tokens_held
    /\ row.amount_sol = p.amount_sol
    /\ row.current_price = p.current_price
    /\ row.pnl_percent = p.pnl_percent

\* C27: when a position has been opened, partially closed or closed, the persisted
\* record of its address agrees with the Position in memory on status, tokens held,
\* SOL committed, current price and PnL%; after a TAKE_PROFIT partial close the
\* persisted tokens held and SOL committed are the moonbag-scaled values.
C27_PersistedMirrorsPosition ==
    [][\A i \in Insts :
          /\ (tr[i].pc = "buy" /\ tr'[i] # tr[i] /\ Len(positions') > Len(positions))
                => RowAgrees(LastRow(db'.positions, tr[i].addr), positions'[Len(positions')])
          /\ (mon[i].pc = "sold" /\ mon'[i] # mon[i]
                 /\ positions'[mon[i].cur].status # positions[mon[i].cur].status)
                => RowAgrees(LastRow(db'.positions, positions[mon[i].cur].token_address),
                             positions'[mon[i].cur])]_vars

\* addresses with a persisted row of status OPEN or PARTIAL_CLOSE
PersistedLive ==
    {db.positions[k].token_address : k \in {j \in 1..Len(db.positions) :
                                               db.positions[j].status \in {"OPEN", "PARTIAL_CLOSE"}}}

\* C26: once the bot has started, every position persisted as OPEN or PARTIAL_CLOSE
\* is in the ledger under its address, so the restarted bot monitors what it holds
\* and opens no second position for an address it already holds.
C26_PersistedPositionsLoaded ==
    /\ running => \A a \in PersistedLive : HasPosition(active_positions, a)
    /\ \A j, k \in 1..Len(db.positions) :
          (/\ j # k
           /\ db.positions[j].token_address = db.positions[k].token_address
           /\ db.positions[j].status \in {"OPEN", "PARTIAL_CLOSE"})
             => db.positions[k].status \notin {"OPEN", "PARTIAL_CLOSE"}

\* an item for address b waits in queue q
Queued(q, b) == \E k \in 1..Len(q) : q[k].contract_address = b

\* position pid is OPEN and in the ledger
HeldOpen(pid) ==
    /\ pid <= Len(positions)
    /\ positions[pid].status = "OPEN"
    /\ \E k \in 1..Len(active_positions) : active_positions[k].pid = pid

\* C28: while the bot runs, whatever failed before for another token (an assessment
\* whose providers failed, a rejected buy, a lookup without a price, a rejected
\* sell), every signal, every admitted discovery and every BUY assessment that waits
\* in a queue is eventually taken by its worker, and every OPEN position in the
\* ledger is eventually looked at again by the monitor.
C28_FailureContained ==
    /\ \A b \in Addrs :
          /\ Queued(discovery_queue, b) ~> ~Queued(discovery_queue, b)
          /\ Queued(analysis_queue, b) ~> ~Queued(analysis_queue, b)
          /\ Queued(trading_queue, b) ~> ~Queued(trading_queue, b)
    /\ \A pid \in 1..(MaxPids + 1) :
          HeldOpen(pid) ~> (~HeldOpen(pid) \/ \E i \in Insts : mon[i].pc = "price" /\ mon[i].cur = pid)

\* C28 witness: the venue rejected the buy of A, and the trading worker that met the
\* failure has taken the BUY assessment of B and is buying
C28_Witness ==
    /\ running
    /\ buy_log = "A"
    /\ ~HasPosition(active_positions, "A")
    /\ \E i \in Insts : tr[i].pc = "buy" /\ tr[i].addr = "B"

\* q2 is q with items put at its end
Extends(q, q2) == Len(q2) >= Len(q) /\ SubSeq(q2, 1, Len(q)) = q

\* q2 is q, or q without its first item, with items put at its end
FifoStep(q, q2) == Extends(q, q2) \/ (q # <<>> /\ Extends(Tail(q), q2))

\* C29: each queue is first-in first-out: a step takes nothing but the oldest item
\* and puts items at the end, so admitted signals are assessed in the order of their
\* admission and the trading worker considers BUY assessments in the order they were
\* queued; while the bot is paused no BUY assessment leaves the trading queue or
\* changes place, and once the bot is running and not paused each queued BUY
\* assessment is considered unless the bot is paused or stopped again first.
C29_QueuesAreFifo ==
    /\ [][ /\ FifoStep(discovery_queue, discovery_queue')
           /\ FifoStep(analysis_queue, analysis_queue')
           /\ FifoStep(trading_queue, trading_queue')
           /\ \A i \in Insts :
                 (tr[i].pc = "loop" /\ tr'[i].pc = "buy")
                    => tr'[i].addr = Head(trading_queue).contract_address
           /\ paused => Extends(trading_queue, trading_queue')
         ]_vars
    /\ \A b \in Addrs :
          (running /\ ~paused /\ Queued(trading_queue, b))
             ~> (~Queued(trading_queue, b) \/ paused \/ ~running)

\* C29 witness: the bot was resumed, the BUY assessment of A, queued first, is with
\* the venue, and the BUY assessment of B is the one still waiting
C29_Witness ==
    /\ reply.action = "resume" /\ reply.success
    /\ discovered_tokens["A"] # NoDiscovery /\ discovered_tokens["B"] # NoDiscovery
    /\ \E i \in Insts : tr[i].pc = "buy" /\ tr[i].addr = "A"
    /\ trading_queue = <<QueuedAnalysis("B", "BUY")>>

\* C35: under any sequence of start and stop, stop directly followed by start and two
\* starts before running is set included, at most one instance of each pipeline
\* worker is active at any time (here: the trading worker and the position monitor,
\* the two workers started together with the discovery and analysis workers).
C35_OneInstancePerWorker ==
    /\ Cardinality({i \in Insts : tr[i].pc # "none"}) <= 1
    /\ Cardinality({i \in Insts : mon[i].pc # "none"}) <= 1

\* monitor i handles the TradeResult of its sell in this step, and the result says
\* the trade succeeded
SuccessfulSellHandled(i) ==
    mon[i].pc = "sold" /\ mon'[i].pc # "sold" /\ mon[i].result.success

\* C36: whenever the venue returns a successful sell TradeResult, from the primary or
\* from the secondary venue, the exit step that handles it either sets the Position
\* CLOSED and takes it out of the ledger or sets it PARTIAL_CLOSE with moonbag-scaled
\* holdings: a position whose tokens were sold is never left OPEN with its holdings
\* unchanged.
C36_SoldPositionNeverLeftOpen ==
    [][\A i \in Insts : \A venue \in {"jupiter", "raydium"} :
          (SuccessfulSellHandled(i) /\ mon[i].result.dex = venue) =>
             LET pid == mon[i].cur
                 p == positions[pid]
                 q == positions'[pid]
             IN /\ ~(q.status = "OPEN" /\ q.tokens_held = p.tokens_held)
                /\ \/ q.status = "CLOSED" /\ pid \notin LedgerPids(active_positions')
                   \/ /\ q.status = "PARTIAL_CLOSE"
                      /\ q.tokens_held * 100 = p.tokens_held * moonbag_percentage
                      /\ q.amount_sol * 100 = p.amount_sol * moonbag_percentage]_vars

\* C37: the buy path returns True exactly when it inserted a new Position
\* during that call, on either venue; whenever it reports failure the ledger,
\* positions_opened and the persisted positions are as before the call; and
\* every Position it inserts has a defined tokens_held.
C37_BuyReturnsTrueIffInserted ==
    [][\A i \in Insts : \A r \in BuyResults(BuySize) :
          BuyReturn(i, r) =>
             LET inserted == Len(positions') = Len(positions) + 1
             IN /\ ExecuteBuyOrderReturns(r) <=> inserted
                /\ ~ExecuteBuyOrderReturns(r) =>
                      /\ active_positions' = active_positions
                      /\ stats'.positions_opened = stats.positions_opened
                      /\ db'.positions = db.positions
                /\ inserted => positions'[Len(positions')].tokens_held # NoneVal]_vars

Delivered == notifier.notification_history \o notifier.in_flight

\* the minimum interval of a severity tier, in seconds
TierInterval(level) ==
    CASE level = "critical" -> 0
      [] level = "high" -> 60
      [] level = "medium" -> 120
      [] level = "low" -> 300

\* a notification of this tier was delivered less than the tier's interval ago
DeliveredRecently(level) ==
    \E k \in 1..Len(Delivered) :
        /\ Delivered[k].level = level
        /\ wall - Delivered[k].timestamp < TierInterval(level)

\* C31: any two delivered notifications of one severity tier are at least the
\* tier's minimum interval apart (critical 0 s, high 60 s, medium 120 s, low
\* 300 s); a notification that comes less than the interval after the last
\* delivered one of its tier is neither sent nor stored; and any other one is
\* sent, whatever was suppressed in between and whatever happened in the other
\* tiers.
C31_TierIntervals ==
    /\ [](\A j, k \in 1..Len(Delivered) :
            (j < k /\ Delivered[j].level = Delivered[k].level) =>
               \/ Delivered[k].timestamp - Delivered[j].timestamp >= TierInterval(Delivered[k].level)
               \/ Delivered[j].timestamp - Delivered[k].timestamp >= TierInterval(Delivered[k].level))
    /\ [][\A level \in Levels :
            SendNotification(level) =>
               IF DeliveredRecently(level)
               THEN /\ notifier'.notification_history = notifier.notification_history
                    /\ notifier'.in_flight = notifier.in_flight
               ELSE /\ notifier'.notification_history = notifier.notification_history
                    /\ notifier'.in_flight =
                          Append(notifier.in_flight, [level |-> level, timestamp |-> wall])]_vars

\* C31 witness: two medium notifications were delivered exactly 120 seconds
\* apart, one of the same tier was rate limited in between, and a high one was
\* delivered within that interval
C31_Witness ==
    /\ \E j, k \in 1..Len(notifier.notification_history) :
          /\ notifier.notification_history[j] = [level |-> "medium", timestamp |-> 0]
          /\ notifier.notification_history[k] = [level |-> "medium", timestamp |-> 120]
    /\ \E k \in 1..Len(notifier.notification_history) :
          /\ notifier.notification_history[k].level = "high"
          /\ notifier.notification_history[k].timestamp \in 1..119
    /\ notifier.rate_limited = "medium"

\* calls of the API admitted in the 60 seconds from time t on
AdmittedFrom(api, t) ==
    Cardinality({k \in 1..Len(limited.admitted[api]) :
                    /\ limited.admitted[api][k] >= t
                    /\ limited.admitted[api][k] < t + 60})

\* C32: for each data API, with its own counter, at most limit_per_minute calls
\* are admitted in the 60 seconds that follow a reset of its window, whatever
\* the interleaving of the callers, several of them waiting on an exhausted
\* window included; and a caller that finds the budget exhausted waits and is
\* then admitted.
C32_LimitPerMinute ==
    /\ [](\A api \in Apis : \A t \in limited.resets[api] :
            AdmittedFrom(api, t) <= limit_per_minute(api))
    /\ \A c \in Callers : Sleeping(c) ~> ~Sleeping(c)

\* a signal is put on the assessment queue in this step
Forwarded == Len(analysis_queue') > Len(analysis_queue)

\* C33: every signal admitted by the dedup step is persisted no later than it
\* is forwarded to the assessment queue, so that the assessment worker never
\* takes a signal that has not been persisted; and a row is persisted only for
\* an admitted signal.
C33_PersistedBeforeForwarded ==
    [][/\ Forwarded => db'.discoveries = db.discoveries + 1
       /\ db'.discoveries # db.discoveries =>
             /\ AtDedup
             /\ analysis_queue' = Append(analysis_queue, Head(discovery_queue))
             /\ discovered_tokens'[Head(discovery_queue).contract_address] = Head(discovery_queue)]_vars

\* a notification is handed to the channel and stored in this step
NotificationDelivered ==
    /\ Len(notifier'.notification_history) = Len(notifier.notification_history) + 1
    /\ notifier'.notification_history[Len(notifier'.notification_history)].timestamp = wall

\* C34: each successful buy emits a position-opened notification and each
\* successful exit a position-closed or partially-closed notification, and
\* each of them is delivered to the notification channel, whatever other
\* notifications were emitted shortly before it.
C34_TradeNotificationsDelivered ==
    [][/\ \A i \in Insts : \A r \in BuyResults(BuySize) :
             (BuyReturnNotifying(i, r) /\ r.success) => NotificationDelivered
       /\ \A i \in Insts :
             (SellReturnNotifying(i) /\ mon[i].result.success) => NotificationDelivered]_vars

\* C38: a configuration update through the control API that fails validation,
\* or that raises part-way, leaves the active trading and filter
\* configuration as it was before the request.
C38_RejectedUpdateKeepsConfig ==
    [][\A req \in ConfigRequests :
          (ApiConfig(req) /\ ~reply'.success) =>
             /\ max_positions' = max_positions
             /\ filter_config' = filter_config]_vars

====
